---- MODULE Spec2Model ----
(***************************************************************************)
(* A model of the newserv interception proxy (src/src/ProxyCommands.cc)    *)
(* and of the server side of the encryption handshake                      *)
(* (src/src/SendCommands.cc).                                              *)
(*                                                                         *)
(* A proxy session is one record, `session`, whose fields carry the names  *)
(* of ProxyServer::LinkedSession.  Every command handler of                *)
(* ProxyCommands.cc is an operator taking the session and the command      *)
(* (command, flag, data) and returning a HandlerResult that also carries   *)
(* the session and the data as the handler left them (the C++ handlers     *)
(* mutate both in place).  A frame handed to Channel::send is appended to  *)
(* session.to_client / session.to_server together with the cipher that     *)
(* was installed on the channel's out direction at that moment, so the     *)
(* order of "send" and "install cipher" inside one handler is observable.  *)
(*                                                                         *)
(* The game server's side (the Client and Lobby objects SendCommands.cc    *)
(* writes to) is the record `server`: its clients, each with the frames    *)
(* the last operation wrote to its output buffer, and one lobby.           *)
(***************************************************************************)
EXTENDS Integers, Sequences, FiniteSets, TLC

VARIABLES session, last, server

vars == <<session, last, server>>

(***************************************************************************)
(* Bounds of the model                                                      *)
(***************************************************************************)
\* guild-card numbers range over 0..MaxGuildCard (0 = "no number")
MaxGuildCard == 3
\* cipher keys carried by server-init frames range over 1..MaxKey
MaxKey == 2
\* payload bytes of a reconnect command range over 1..MaxByte
MaxByte == 2

(***************************************************************************)
(* Program constants                                                        *)
(***************************************************************************)
\* sizeof(session.prev_server_command_bytes)
PrevServerCommandBytesSize == 6
\* sizeof(S_Reconnect_19): {address:u32, port:u16, unused:u16}
ReconnectSize == 8
\* maximum accepted size of a 19 payload
ReconnectMaxSize == 176
\* offsetof(S_UpdateClientConfig_DC_PC_V3_04, cfg): player_tag and guild card
UpdateClientConfigCfgOffset == 8
\* sizeof(S_UpdateClientConfig_DC_PC_V3_04)
UpdateClientConfigSize == 40
\* session.remote_client_config_data.bytes()
ClientConfigSize == 32
\* 32-bit fields are held as their two's-complement value: 0xFFFFFFFF is -1
\* and 0xFFFF0000 is -65536.
\* the guild card number a login carries when none has been assigned
NoGuildCardNumber == -1
\* player tags of login commands
PlayerTagNone == -65536
PlayerTagSet == 65536

Versions == {"DC", "PC", "PATCH", "GC", "XB", "BB"}
GuildCards == 0..MaxGuildCard
Keys == 1..MaxKey
Bytes == 1..MaxByte

(***************************************************************************)
(* Ciphers.  A cipher is a record; NoCrypt is the null pointer.            *)
(***************************************************************************)
NoCrypt == [type |-> "none"]

PSOV2Encryption(key) == [type |-> "V2", key |-> key]

PSOV3Encryption(key) == [type |-> "V3", key |-> key]

\* s->bb_private_keys: the pool of candidate client keys
bb_private_keys == {"keyA", "keyB", "keyC"}

\* the known plaintext of the first 8 bytes a BB client sends
expected_first_data == <<180, 0, 147, 0, 0, 0, 0, 0>>

PSOBBMultiKeyDetectorEncryption(pool, expected, key) ==
  [type |-> "BBDetector", key |-> key, pool |-> pool, expected |-> expected]

PSOBBMultiKeyImitatorEncryption(detector, key, jsd1_use_detector_seed) ==
  [type |-> "BBImitator", key |-> key, detector |-> detector,
   jsd1_use_detector_seed |-> jsd1_use_detector_seed]

(***************************************************************************)
(* Channels                                                                 *)
(***************************************************************************)
Frame(command, flag, data, crypt) ==
  [command |-> command, flag |-> flag, data |-> data, crypt |-> crypt]

\* Channel::send: frames the command and encrypts it with the cipher that is
\* installed on the out direction now; a closed channel drops the data.
channel_send(s, to_server, command, flag, data) ==
  IF to_server
    THEN IF s.server_channel.connected
           THEN [s EXCEPT !.to_server =
                   Append(@, Frame(command, flag, data, s.server_channel.crypt_out))]
           ELSE s
    ELSE IF s.client_channel.connected
           THEN [s EXCEPT !.to_client =
                   Append(@, Frame(command, flag, data, s.client_channel.crypt_out))]
           ELSE s

forward_command(s, to_server, command, flag, data) ==
  LET ch == IF to_server THEN s.server_channel ELSE s.client_channel
  IN IF ~ch.connected
       THEN s
       ELSE channel_send(s, to_server, command, flag, data)

\* a session that is left open
session_stays_open(s) == s

\* session.disconnect(): both channels are closed
session_disconnect(s) ==
  [s EXCEPT !.disconnected = TRUE,
            !.client_channel.connected = FALSE,
            !.server_channel.connected = FALSE]

(***************************************************************************)
(* Handler results                                                          *)
(***************************************************************************)
HandlerResult(type, s, data) ==
  [session |-> s, type |-> type, data |-> data, new_command |-> -1, new_flag |-> -1]

HandlerResultModified(s, data, new_command, new_flag) ==
  [session |-> s, type |-> "MODIFIED", data |-> data,
   new_command |-> new_command, new_flag |-> new_flag]

\* an exception escaping the handler; s is the session as the handler had
\* mutated it before throwing
Throw(s, data) == HandlerResult("THROW", s, data)

\* check_size_t on a payload whose size is given relative to the structure
\* it is read as: "short" (below the minimum), "exact" (the minimum) or
\* "long" (above the minimum, at most 0xFFFF)
check_size_lax(size) == size \in {"exact", "long"}

check_size_strict(size) == size = "exact"

string_printf_08X(n) == <<"%08X", n>>

\* A default handler that keeps the command to itself.
process_default_suppressing(s, command, flag, data) == HandlerResult("SUPPRESS", s, data)

process_default(s, command, flag, data) == HandlerResult("FORWARD", s, data)

(***************************************************************************)
(* Server-init handlers (encryption splicing)                               *)
(***************************************************************************)
process_server_97(s, command, flag, data) ==
  LET s1 == [s EXCEPT !.newserv_client_config_flags = @ \cup {"SAVE_ENABLED"}]
  IN IF flag = 0
       THEN HandlerResultModified(s1, data, 151, 1)
       ELSE HandlerResult("FORWARD", s1, data)

\* the guild-card part of a synthesized login command
login_identity(s) ==
  IF s.remote_guild_card_number = 0
    THEN [player_tag |-> PlayerTagNone, guild_card_number |-> NoGuildCardNumber]
    ELSE [player_tag |-> PlayerTagSet, guild_card_number |-> s.remote_guild_card_number]

process_server_gc_9A(s, command, flag, data) ==
  IF s.license = 0
    THEN HandlerResult("FORWARD", s, data)
    ELSE LET id == login_identity(s)
             cmd == [player_tag |-> id.player_tag,
                     guild_card_number |-> id.guild_card_number,
                     name |-> "C_LoginExtended_GC_9E",
                     is_extended |-> IF s.remote_guild_card_number # 0 THEN 0 ELSE 1,
                     serial_number |-> string_printf_08X(s.license),
                     client_config |-> s.remote_client_config_data]
         IN HandlerResult("SUPPRESS", channel_send(s, TRUE, 158, 1, cmd), data)

\* The cipher for what the client sends is left as it was.
install_crypts_unlicensed_02_17_but_client_in(s, cmd) ==
  IF s.version \in {"GC", "XB"}
    THEN [s EXCEPT !.server_channel.crypt_in = PSOV3Encryption(cmd.server_key),
                   !.server_channel.crypt_out = PSOV3Encryption(cmd.client_key),
                   !.client_channel.crypt_out = PSOV3Encryption(cmd.server_key)]
    ELSE [s EXCEPT !.server_channel.crypt_in = PSOV2Encryption(cmd.server_key),
                   !.server_channel.crypt_out = PSOV2Encryption(cmd.client_key),
                   !.client_channel.crypt_out = PSOV2Encryption(cmd.server_key)]

\* lines 184-195: all four directions, keyed from the server-init frame
install_crypts_unlicensed_02_17(s, cmd) ==
  IF s.version \in {"GC", "XB"}
    THEN [s EXCEPT !.server_channel.crypt_in = PSOV3Encryption(cmd.server_key),
                   !.server_channel.crypt_out = PSOV3Encryption(cmd.client_key),
                   !.client_channel.crypt_in = PSOV3Encryption(cmd.client_key),
                   !.client_channel.crypt_out = PSOV3Encryption(cmd.server_key)]
    ELSE [s EXCEPT !.server_channel.crypt_in = PSOV2Encryption(cmd.server_key),
                   !.server_channel.crypt_out = PSOV2Encryption(cmd.client_key),
                   !.client_channel.crypt_in = PSOV2Encryption(cmd.client_key),
                   !.client_channel.crypt_out = PSOV2Encryption(cmd.server_key)]

\* The same two steps in the wrong order: ciphers first, forward second.
process_unlicensed_02_17_install_first(s, command, flag, data) ==
  LET s1 == install_crypts_unlicensed_02_17(s, data)
      s2 == forward_command(s1, FALSE, command, flag, data)
  IN HandlerResult("SUPPRESS", s2, data)

\* lines 177-198: the session has no license
process_unlicensed_02_17(s, command, flag, data) ==
  LET s1 == forward_command(s, FALSE, command, flag, data)
      s2 == install_crypts_unlicensed_02_17(s1, data)
  IN HandlerResult("SUPPRESS", s2, data)

\* The upstream ciphers with the two keys exchanged.
install_server_crypts_licensed_02_17_swapped(s, cmd) ==
  CASE s.version \in {"DC", "PC", "PATCH"} ->
         [s EXCEPT !.server_channel.crypt_in = PSOV2Encryption(cmd.client_key),
                   !.server_channel.crypt_out = PSOV2Encryption(cmd.server_key)]
    [] s.version \in {"GC", "XB"} ->
         [s EXCEPT !.server_channel.crypt_in = PSOV3Encryption(cmd.client_key),
                   !.server_channel.crypt_out = PSOV3Encryption(cmd.server_key)]
    [] OTHER -> s

\* lines 203-214: only the upstream channel (the default case of the switch
\* is unsupported_version_02_17)
install_server_crypts_licensed_02_17(s, cmd) ==
  CASE s.version \in {"DC", "PC", "PATCH"} ->
         [s EXCEPT !.server_channel.crypt_in = PSOV2Encryption(cmd.server_key),
                   !.server_channel.crypt_out = PSOV2Encryption(cmd.client_key)]
    [] s.version \in {"GC", "XB"} ->
         [s EXCEPT !.server_channel.crypt_in = PSOV3Encryption(cmd.server_key),
                   !.server_channel.crypt_out = PSOV3Encryption(cmd.client_key)]
    [] OTHER -> s

unsupported_version_02_17(s) == s.version \notin {"DC", "PC", "PATCH", "GC", "XB"}

\* A proxy that lets the client answer the server-init itself.
respond_with_login_02_17_forwarding(s, command, flag, data) ==
  HandlerResult("FORWARD", s, data)

\* lines 223-296: the login command sent in the client's stead
respond_with_login_02_17(s, command, flag, data) ==
  LET id == login_identity(s)
  IN CASE s.version = "PATCH" ->
            HandlerResult("SUPPRESS", channel_send(s, TRUE, 2, 0, [name |-> "empty"]), data)
       [] s.version \in {"DC", "PC"} ->
            IF "DCV1" \in s.newserv_client_config_flags
              THEN HandlerResult("SUPPRESS",
                     channel_send(s, TRUE, 147, 0,
                       [player_tag |-> id.player_tag,
                        guild_card_number |-> id.guild_card_number,
                        name |-> "C_LoginV1_DC_93",
                        is_extended |-> 0,
                        serial_number |-> string_printf_08X(s.license)]), data)
              ELSE HandlerResult("SUPPRESS",
                     channel_send(s, TRUE, 157, 0,
                       [player_tag |-> id.player_tag,
                        guild_card_number |-> id.guild_card_number,
                        name |-> "C_Login_DC_PC_GC_9D",
                        is_extended |-> 0,
                        serial_number |-> string_printf_08X(s.license)]), data)
       [] s.version = "GC" ->
            IF command = 23
              THEN HandlerResult("SUPPRESS",
                     channel_send(s, TRUE, 219, 0,
                       [name |-> "C_VerifyLicense_V3_DB",
                        serial_number |-> string_printf_08X(s.license)]), data)
              ELSE process_server_gc_9A(s, command, flag, data)
       [] OTHER -> Throw(s, data)

process_server_dc_pc_v3_patch_02_17(s, command, flag, data) ==
  IF s.version = "PATCH" /\ command = 23
    THEN Throw(s, data)
  ELSE IF ~check_size_lax(data.size)
    THEN Throw(s, data)
  ELSE IF s.license = 0
    THEN process_unlicensed_02_17(s, command, flag, data)
  ELSE IF unsupported_version_02_17(s)
    THEN Throw(s, data)
  ELSE respond_with_login_02_17(
         install_server_crypts_licensed_02_17(s, data), command, flag, data)

\* The login replay without the check for a captured login command.
process_server_bb_03_resumed_unchecked(s, data) ==
  LET s1 == [s EXCEPT
               !.server_channel.crypt_in =
                  PSOBBMultiKeyImitatorEncryption(s.detector_crypt, data.server_key, FALSE),
               !.server_channel.crypt_out =
                  PSOBBMultiKeyImitatorEncryption(s.detector_crypt, data.client_key, FALSE)]
  IN HandlerResult("SUPPRESS", channel_send(s1, TRUE, 147, 0, s1.login_command_bb), data)

\* lines 308-330: the session was resumed from an unlinked one
process_server_bb_03_resumed(s, data) ==
  IF s.login_command_bb.size = 0
    THEN Throw(s, data)
    ELSE LET s1 == [s EXCEPT
                      !.server_channel.crypt_in =
                         PSOBBMultiKeyImitatorEncryption(s.detector_crypt, data.server_key, FALSE),
                      !.server_channel.crypt_out =
                         PSOBBMultiKeyImitatorEncryption(s.detector_crypt, data.client_key, FALSE)]
             s2 == IF s1.enable_remote_ip_crc_patch /\ s1.login_command_bb.size >= 152
                     THEN [s1 EXCEPT !.login_command_bb.dword_94 =
                             [xor |-> <<s1.remote_ip_crc, 1309539928, 1248334810>>]]
                     ELSE s1
         IN HandlerResult("SUPPRESS", channel_send(s2, TRUE, 147, 0, s2.login_command_bb), data)

\* The four ciphers installed before the 03 is passed on.
process_server_bb_03_new_install_first(s, data) ==
  LET det == PSOBBMultiKeyDetectorEncryption(bb_private_keys, expected_first_data, data.client_key)
      s1 == [s EXCEPT
               !.detector_crypt = det,
               !.client_channel.crypt_in = det,
               !.client_channel.crypt_out =
                  PSOBBMultiKeyImitatorEncryption(det, data.server_key, TRUE),
               !.server_channel.crypt_in =
                  PSOBBMultiKeyImitatorEncryption(det, data.server_key, FALSE),
               !.server_channel.crypt_out =
                  PSOBBMultiKeyImitatorEncryption(det, data.client_key, FALSE)]
  IN HandlerResult("SUPPRESS", channel_send(s1, FALSE, 3, 0, data), data)

\* lines 335-353: the session is new
process_server_bb_03_new(s, data) ==
  LET s1 == channel_send(s, FALSE, 3, 0, data)
      det == PSOBBMultiKeyDetectorEncryption(bb_private_keys, expected_first_data, data.client_key)
      s2 == [s1 EXCEPT
               !.detector_crypt = det,
               !.client_channel.crypt_in = det,
               !.client_channel.crypt_out =
                  PSOBBMultiKeyImitatorEncryption(det, data.server_key, TRUE),
               !.server_channel.crypt_in =
                  PSOBBMultiKeyImitatorEncryption(det, data.server_key, FALSE),
               !.server_channel.crypt_out =
                  PSOBBMultiKeyImitatorEncryption(det, data.client_key, FALSE)]
  IN HandlerResult("SUPPRESS", s2, data)

process_server_bb_03(s, command, flag, data) ==
  IF ~check_size_lax(data.size)
    THEN Throw(s, data)
  ELSE IF s.detector_crypt # NoCrypt
    THEN process_server_bb_03_resumed(s, data)
  ELSE process_server_bb_03_new(s, data)

\* fnv1a64(data.data(), data.size()).  The hash is a 64-bit value of bytes
\* that are not in the source (only their hash is); a 22 payload is held as
\* its size and its hash.
fnv1a64(data) == data.fnv1a64

\* the hash process_server_bb_22 compares with, 0x8AF8314316A27994
RemoteIpCrcFingerprint == "8AF8314316A27994"

\* A detection that does not look at the size of the command.
process_server_bb_22_any_size(s, command, flag, data) ==
  IF fnv1a64(data) = RemoteIpCrcFingerprint
    THEN HandlerResult("FORWARD", [s EXCEPT !.enable_remote_ip_crc_patch = TRUE], data)
    ELSE HandlerResult("FORWARD", s, data)

process_server_bb_22(s, command, flag, data) ==
  IF data.size = 44 /\ fnv1a64(data) = RemoteIpCrcFingerprint
    THEN HandlerResult("FORWARD", [s EXCEPT !.enable_remote_ip_crc_patch = TRUE], data)
    ELSE HandlerResult("FORWARD", s, data)

(***************************************************************************)
(* Identity rewriting, server to client                                    *)
(***************************************************************************)
\* A reference through a null session.license: undefined behaviour.  The
\* build dereferences address 0 and the process dies; nothing is forwarded.
UndefinedBehaviour(s, data) == HandlerResult("UB", s, data)

\* A rewrite that leaves every number as it is.
inbound_guild_card_unchanged(s, g) == g

\* `if (x == session.remote_guild_card_number) x = session.license->serial_number`
inbound_guild_card(s, g) ==
  IF g = s.remote_guild_card_number THEN s.license ELSE g

\* `if (x == session.license->serial_number) x = session.remote_guild_card_number`
outbound_guild_card(s, g) ==
  IF g = s.license THEN s.remote_guild_card_number ELSE g

send_text_message_to_client(s, command, message) ==
  channel_send(s, FALSE, command, 0, [name |-> "text", text |-> message])

\* size_t arithmetic of `data.size() - sizeof(S_UpdateClientConfig_DC_PC_V3_04)`:
\* a difference below zero wraps to 2^64 - (b - a).  The wrapped value is
\* held as SizeWrap - (b - a), which is above every payload size as well.
SizeWrap == 2147483647

size_t_sub(a, b) == IF a >= b THEN a - b ELSE SizeWrap - (b - a)

Min(a, b) == IF a < b THEN a ELSE b

\* A checksum is sent upstream for every 04.
process_server_dc_pc_v3_04_checksum_always(s, command, flag, data) ==
  IF data.size < UpdateClientConfigCfgOffset \/ data.size > UpdateClientConfigSize
    THEN Throw(s, data)
    ELSE
      LET s1 == IF s.remote_guild_card_number # data.guild_card_number
                  THEN send_text_message_to_client(
                         [s EXCEPT !.remote_guild_card_number = data.guild_card_number],
                         17, <<"remote guild card number", data.guild_card_number>>)
                  ELSE s
          data1 == IF s1.license # 0
                     THEN [data EXCEPT !.guild_card_number = s1.license]
                     ELSE data
      IN HandlerResult(IF s1.license # 0 THEN "MODIFIED" ELSE "FORWARD",
                       channel_send(s1, TRUE, 150, 0, [name |-> "checksum"]), data1)

process_server_dc_pc_v3_04(s, command, flag, data) ==
  IF data.size < UpdateClientConfigCfgOffset \/ data.size > UpdateClientConfigSize
    THEN Throw(s, data)
    ELSE
      LET had_guild_card_number == s.remote_guild_card_number # 0
          s1 == IF s.remote_guild_card_number # data.guild_card_number
                  THEN send_text_message_to_client(
                         [s EXCEPT !.remote_guild_card_number = data.guild_card_number],
                         17, <<"remote guild card number", data.guild_card_number>>)
                  ELSE s
          data1 == IF s1.license # 0
                     THEN [data EXCEPT !.guild_card_number = s1.license]
                     ELSE data
          ncopy == Min(size_t_sub(data.size, UpdateClientConfigSize), ClientConfigSize)
          s2 == [s1 EXCEPT !.remote_client_config_data =
                   [i \in 1..ClientConfigSize |->
                      IF i <= ncopy
                        THEN IF i <= data.size - UpdateClientConfigCfgOffset
                               THEN <<"cfg", data.cfg, i>>
                               ELSE <<"beyond", data.beyond, i>>
                        ELSE <<"text", IF had_guild_card_number THEN 1 ELSE 0, i>>]]
          s3 == IF ~had_guild_card_number
                  THEN channel_send(s2, TRUE, 150, 0, [name |-> "checksum"])
                  ELSE s2
      IN HandlerResult(IF s3.license # 0 THEN "MODIFIED" ELSE "FORWARD", s3, data1)

process_server_dc_pc_v3_06(s, command, flag, data) ==
  IF s.license # 0
    THEN IF ~check_size_lax(data.size)
           THEN Throw(s, data)
         ELSE IF data.guild_card_number = s.remote_guild_card_number
           THEN HandlerResult("MODIFIED", s,
                  [data EXCEPT !.guild_card_number = inbound_guild_card(s, @)])
         ELSE HandlerResult("FORWARD", s, data)
    ELSE HandlerResult("FORWARD", s, data)

process_server_41(s, command, flag, data) ==
  IF s.license # 0
    THEN IF ~check_size_strict(data.size)
           THEN Throw(s, data)
           ELSE LET data1 == [data EXCEPT
                                !.searcher_guild_card_number = inbound_guild_card(s, @),
                                !.result_guild_card_number = inbound_guild_card(s, @)]
                    modified == \/ data.searcher_guild_card_number = s.remote_guild_card_number
                                \/ data.result_guild_card_number = s.remote_guild_card_number
                IN HandlerResult(IF modified THEN "MODIFIED" ELSE "FORWARD", s, data1)
    ELSE HandlerResult("FORWARD", s, data)

process_server_81(s, command, flag, data) ==
  IF s.license # 0
    THEN IF ~check_size_strict(data.size)
           THEN Throw(s, data)
           ELSE LET data1 == [data EXCEPT
                                !.from_guild_card_number = inbound_guild_card(s, @),
                                !.to_guild_card_number = inbound_guild_card(s, @)]
                    modified == \/ data.from_guild_card_number = s.remote_guild_card_number
                                \/ data.to_guild_card_number = s.remote_guild_card_number
                IN HandlerResult(IF modified THEN "MODIFIED" ELSE "FORWARD", s, data1)
    ELSE HandlerResult("FORWARD", s, data)

\* the loop of process_server_88 / process_server_C4 over the first `flag`
\* entries of the payload
rewrite_entries(s, entries, flag) ==
  [x \in 1..Len(entries) |->
     IF x <= flag
       THEN [entries[x] EXCEPT !.guild_card_number = inbound_guild_card(s, @)]
       ELSE entries[x]]

entries_modified(s, entries, flag) ==
  \E x \in 1..Len(entries) :
     x <= flag /\ entries[x].guild_card_number = s.remote_guild_card_number

process_server_88(s, command, flag, data) ==
  IF s.license # 0
    THEN IF Len(data.entries) # flag
           THEN Throw(s, data)
           ELSE HandlerResult(
                  IF entries_modified(s, data.entries, flag) THEN "MODIFIED" ELSE "FORWARD",
                  s, [data EXCEPT !.entries = rewrite_entries(s, @, flag)])
    ELSE HandlerResult("FORWARD", s, data)

process_server_C4(s, command, flag, data) ==
  IF s.license # 0
    THEN IF Len(data.entries) < flag
           THEN Throw(s, data)
           ELSE HandlerResult(
                  IF entries_modified(s, data.entries, flag) THEN "MODIFIED" ELSE "FORWARD",
                  s, [data EXCEPT !.entries = rewrite_entries(s, @, flag)])
    ELSE HandlerResult("FORWARD", s, data)

process_server_gc_E4(s, command, flag, data) ==
  IF ~check_size_strict(data.size)
    THEN Throw(s, data)
  ELSE IF entries_modified(s, data.entries, 4)
    THEN IF s.license = 0
           THEN UndefinedBehaviour(s, data)
           ELSE HandlerResult("MODIFIED", s,
                  [data EXCEPT !.entries = rewrite_entries(s, @, 4)])
  ELSE HandlerResult("FORWARD", s, data)

(***************************************************************************)
(* The lobby mirror                                                         *)
(***************************************************************************)
EmptyLobbyPlayer == [guild_card_number |-> 0, name |-> ""]

\* std::vector::resize
vector_resize(v, n) ==
  [i \in 1..n |-> IF i <= Len(v) THEN v[i] ELSE EmptyLobbyPlayer]

update_leader_id(s, leader_id) ==
  IF s.leader_client_id # leader_id
    THEN LET s1 == [s EXCEPT !.leader_client_id = leader_id]
         IN IF s1.leader_client_id = s1.lobby_client_id
              THEN channel_send(s1, FALSE, 176, 0,
                     [name |-> "text", text |-> <<"You are now the leader">>])
              ELSE s1
    ELSE s

\* one iteration of the loop of process_server_65_67_68 (lines 894-909):
\* r is [session, entries, modified], x the position in the payload
join_lobby_entry(r, x) ==
  LET s == r.session
      e == r.entries[x]
      index == e.client_id
  IN IF index >= Len(s.lobby_players)
       THEN r
       ELSE LET rewrite == s.license # 0 /\ e.guild_card = s.remote_guild_card_number
                e1 == IF rewrite THEN [e EXCEPT !.guild_card = inbound_guild_card(s, @)] ELSE e
            IN [session |-> [s EXCEPT !.lobby_players[index + 1] =
                               [guild_card_number |-> e1.guild_card, name |-> e1.name]],
                modified |-> r.modified \/ rewrite,
                entries |-> [r.entries EXCEPT ![x] = e1]]

RECURSIVE join_lobby_loop(_, _, _)
join_lobby_loop(r, x, flag) ==
  IF x > flag THEN r ELSE join_lobby_loop(join_lobby_entry(r, x), x + 1, flag)

process_server_65_67_68(s, command, flag, data) ==
  LET s1 == IF command = 103
              THEN [s EXCEPT
                      !.lobby_players = vector_resize(<<>>, 12),
                      !.newserv_client_config_flags =
                         IF "NO_MESSAGE_BOX_CLOSE_CONFIRMATION_AFTER_LOBBY_JOIN" \in @
                           THEN @ \cup {"NO_MESSAGE_BOX_CLOSE_CONFIRMATION"}
                           ELSE @]
              ELSE s
  IN IF Len(data.entries) # flag
       THEN Throw(s1, data)
       ELSE
         LET s2 == update_leader_id([s1 EXCEPT !.lobby_client_id = data.client_id],
                                    data.leader_id)
             r == join_lobby_loop(
                    [session |-> s2, modified |-> FALSE, entries |-> data.entries], 1, flag)
             data1 == [data EXCEPT !.entries = r.entries]
             data2 == IF s.override_lobby_event >= 0
                        THEN [data1 EXCEPT !.event = s.override_lobby_event]
                        ELSE data1
             data3 == IF s.override_lobby_number >= 0
                        THEN [data2 EXCEPT !.lobby_number = s.override_lobby_number]
                        ELSE data2
             modified == \/ r.modified
                         \/ s.override_lobby_event >= 0
                         \/ s.override_lobby_number >= 0
         IN HandlerResult(IF modified THEN "MODIFIED" ELSE "FORWARD", r.session, data3)

\* one iteration of the loop of process_server_64 (lines 946-961):
\* r is [session, lobby_data, modified, ub]
join_game_entry(r, x, names) ==
  LET s == r.session
      g == r.lobby_data[x].guild_card
      rewrite == g = s.remote_guild_card_number
  IN IF r.ub \/ x > Len(r.lobby_data) \/ x > Len(s.lobby_players) \/ (rewrite /\ s.license = 0)
       THEN [r EXCEPT !.ub = TRUE]
       ELSE LET g1 == IF rewrite THEN inbound_guild_card(s, g) ELSE g
            IN [session |-> [s EXCEPT !.lobby_players[x] =
                               [guild_card_number |-> g1, name |-> names[x]]],
                modified |-> r.modified \/ rewrite,
                lobby_data |-> [r.lobby_data EXCEPT ![x].guild_card = g1],
                ub |-> FALSE]

RECURSIVE join_game_loop(_, _, _, _)
join_game_loop(r, x, flag, names) ==
  IF x > flag THEN r ELSE join_game_loop(join_game_entry(r, x, names), x + 1, flag, names)

process_server_64(s, command, flag, data) ==
  LET s1 == [s EXCEPT !.lobby_players = vector_resize(@, 4)]
      is_ep3 == s.sub_version >= 64
  IN IF (is_ep3 /\ data.size # "Ep3") \/ (~is_ep3 /\ data.size # "CmdT")
       THEN Throw(s1, data)
       ELSE
         LET s2 == update_leader_id([s1 EXCEPT !.lobby_client_id = data.client_id],
                                    data.leader_id)
             names == [x \in 1..4 |-> IF is_ep3 THEN data.players_ep3[x] ELSE ""]
             r == join_game_loop(
                    [session |-> s2, modified |-> FALSE,
                     lobby_data |-> data.lobby_data, ub |-> FALSE], 1, flag, names)
             data1 == [data EXCEPT !.lobby_data = r.lobby_data]
             data2 == IF s.override_section_id >= 0
                        THEN [data1 EXCEPT !.section_id = s.override_section_id]
                        ELSE data1
             data3 == IF s.override_lobby_event >= 0
                        THEN [data2 EXCEPT !.event = s.override_lobby_event]
                        ELSE data2
             data4 == IF s.override_random_seed >= 0
                        THEN [data3 EXCEPT !.rare_seed = s.override_random_seed]
                        ELSE data3
             modified == \/ r.modified
                         \/ s.override_section_id >= 0
                         \/ s.override_lobby_event >= 0
                         \/ s.override_random_seed >= 0
         IN IF r.ub
              THEN UndefinedBehaviour(r.session, data1)
              ELSE HandlerResult(IF modified THEN "MODIFIED" ELSE "FORWARD", r.session, data4)

\* A leave command that leaves the mirror as it is.
process_server_66_69_keeps_player(s, command, flag, data) ==
  IF ~check_size_strict(data.size)
    THEN Throw(s, data)
    ELSE HandlerResult("FORWARD", update_leader_id(s, data.leader_id), data)

process_server_66_69(s, command, flag, data) ==
  IF ~check_size_strict(data.size)
    THEN Throw(s, data)
    ELSE LET index == data.client_id
             s1 == IF index >= Len(s.lobby_players)
                     THEN s
                     ELSE [s EXCEPT !.lobby_players[index + 1] = EmptyLobbyPlayer]
         IN HandlerResult("FORWARD", update_leader_id(s1, data.leader_id), data)

(***************************************************************************)
(* Reconnect interception                                                   *)
(***************************************************************************)
\* htons / ntohs on a little-endian host: the two bytes change places
htons(x) == (x % 256) * 256 + (x \div 256)

ntohs(x) == htons(x)

\* le_uint16_t load / store
load_u16l(b, at) == b[at] + 256 * b[at + 1]

store_u16l(b, at, v) == [b EXCEPT ![at] = v % 256, ![at + 1] = (v \div 256) % 256]

\* be_uint32_t::load_raw / store_raw and in_addr.s_addr: four bytes in
\* memory order
load_raw(b, at) == SubSeq(b, at, at + 3)

store_raw(b, at, a) == [i \in 1..Len(b) |-> IF i >= at /\ i < at + 4 THEN a[i - at + 1] ELSE b[i]]

Zeroes(n) == [i \in 1..n |-> 0]

crc32(bytes) == [crc32 |-> bytes]

\* A fill that completes a short command with zeroes only.
fill_reconnect_data_zeroes(s, data) ==
  IF Len(data) < ReconnectSize
    THEN data \o Zeroes(ReconnectSize - Len(data))
    ELSE data

\* lines 647-654: the short command is completed from the bytes of the
\* previous server command, then zero-padded to sizeof(S_Reconnect_19)
fill_reconnect_data(s, data) ==
  LET d1 == IF Len(data) < PrevServerCommandBytesSize
              THEN data \o SubSeq(s.prev_server_command_bytes,
                                  Len(data) + 1, PrevServerCommandBytesSize)
              ELSE data
  IN IF Len(d1) < ReconnectSize
       THEN d1 \o Zeroes(ReconnectSize - Len(d1))
       ELSE d1

\* A proxy that substitutes its own address for virtual connections too.
rewrite_reconnect_for_client_always_address(s, data) ==
  LET sin == s.client_channel.local_addr
  IN IF sin.sin_family # "AF_INET"
       THEN Throw(s, data)
       ELSE HandlerResult("MODIFIED", s,
              store_u16l(store_raw(data, 1, sin.sin_addr), 5, ntohs(sin.sin_port)))

\* lines 695-706: what the client is told
rewrite_reconnect_for_client(s, data) ==
  IF s.client_channel.is_virtual_connection
    THEN HandlerResult("MODIFIED", s, store_u16l(data, 5, s.local_port))
    ELSE LET sin == s.client_channel.local_addr
         IN IF sin.sin_family # "AF_INET"
              THEN Throw(s, data)
              ELSE HandlerResult("MODIFIED", s,
                     store_u16l(store_raw(data, 1, sin.sin_addr), 5, ntohs(sin.sin_port)))

\* A proxy that forgets where upstream wanted the client to go.
record_next_destination_none(s, data) == s

\* lines 663-668
record_next_destination(s, data) ==
  [s EXCEPT !.next_destination =
     [sin_family |-> "AF_INET",
      sin_addr |-> load_raw(data, 1),
      sin_port |-> htons(load_u16l(data, 5))]]

\* A proxy that follows the redirect with the old upstream ciphers in place.
follow_patch_redirect_keeping_crypts(s, data) ==
  LET s3 == [s EXCEPT !.next_destination =
                         [sin_family |-> "AF_INET",
                          sin_addr |-> load_raw(data, 1),
                          sin_port |-> load_u16l(data, 5)]]
  IN HandlerResult("SUPPRESS", [s3 EXCEPT !.connected_to = s3.next_destination], data)

\* lines 674-688: the patch server's redirect is followed by the proxy
\* itself; session.connect() opens a connection to next_destination, which
\* is held here as connected_to.  The port is stored as it is read, without
\* htons.
follow_patch_redirect(s, data) ==
  LET s3 == [s EXCEPT
               !.server_channel.crypt_in = NoCrypt,
               !.server_channel.crypt_out = NoCrypt,
               !.next_destination =
                  [sin_family |-> "AF_INET",
                   sin_addr |-> load_raw(data, 1),
                   sin_port |-> load_u16l(data, 5)]]
  IN HandlerResult("SUPPRESS", [s3 EXCEPT !.connected_to = s3.next_destination], data)

process_server_game_19_patch_14(s, command, flag, data) ==
  LET d == fill_reconnect_data(s, data)
      s1 == IF s.enable_remote_ip_crc_patch
              THEN [s EXCEPT !.remote_ip_crc = crc32(SubSeq(d, 1, 4))]
              ELSE s
  IN IF Len(d) < ReconnectSize \/ Len(d) > ReconnectMaxSize
       THEN Throw(s1, d)
       ELSE
         LET s2 == record_next_destination(s1, d)
         IN IF ~s2.client_channel.connected
              THEN HandlerResult("SUPPRESS", s2, d)
            ELSE IF command = 20
              THEN follow_patch_redirect(s2, d)
            ELSE rewrite_reconnect_for_client(s2, d)

\* A handler that never confirms for the client.
process_server_v3_1A_D5_unconfirmed(s, command, flag, data) ==
  HandlerResult("FORWARD", s, data)

process_server_v3_1A_D5(s, command, flag, data) ==
  IF /\ s.version \in {"GC", "XB"}
     /\ "NO_MESSAGE_BOX_CLOSE_CONFIRMATION" \in s.newserv_client_config_flags
    THEN HandlerResult("FORWARD", channel_send(s, TRUE, 214, 0, [name |-> "empty"]), data)
    ELSE HandlerResult("FORWARD", s, data)

(***************************************************************************)
(* Game subcommands from upstream                                           *)
(***************************************************************************)
\* ItemData after clear(): every field is zero
NoItem == [id |-> 0, data1d0 |-> 0]

\* send_drop_item: a 60 carrying subcommand 6x5F
send_drop_item(s, to_server, item, from_enemy, area, x, z, request_id) ==
  channel_send(s, to_server, 96, 0,
    [size |-> "exact", x |-> x, item |-> item, from_enemy |-> from_enemy,
     area |-> area, z |-> z, request_id |-> request_id, subcommand |-> 95])

\* An injection that leaves next_drop_item as it was.
inject_next_drop_item_keeping(s, data, from_enemy) ==
  LET s1 == [s EXCEPT !.next_drop_item.id = s.next_item_id,
                      !.next_item_id = @ + 1]
      s2 == send_drop_item(s1, TRUE, s1.next_drop_item, from_enemy,
              data.area, data.x, data.z, data.request_id)
      s3 == send_drop_item(s2, FALSE, s2.next_drop_item, from_enemy,
              data.area, data.x, data.z, data.request_id)
  IN HandlerResult("SUPPRESS", s3, data)

\* lines 746-752 and 759-765: the item gets the next id, is dropped for
\* upstream and for the client, and next_drop_item is cleared
inject_next_drop_item(s, data, from_enemy) ==
  LET s1 == [s EXCEPT !.next_drop_item.id = s.next_item_id,
                      !.next_item_id = @ + 1]
      s2 == send_drop_item(s1, TRUE, s1.next_drop_item, from_enemy,
              data.area, data.x, data.z, data.request_id)
      s3 == send_drop_item(s2, FALSE, s2.next_drop_item, from_enemy,
              data.area, data.x, data.z, data.request_id)
  IN HandlerResult("SUPPRESS", [s3 EXCEPT !.next_drop_item = NoItem], data)

\* lines 726-737: a GC map command (6xB6 with 0x41 in its third dword) is
\* decompressed and written to a file named after its fourth dword and the
\* time; a failed decompression throws.  saved_files is the set of maps
\* that have a file.
saves_map_file(s, data) ==
  /\ s.save_files
  /\ s.version = "GC"
  /\ data.subcommand = 182
  /\ data.size = "long"
  /\ data.dword2 = 65

\* a payload with no bytes has subcommand -1
process_server_60_62_6C_6D_C9_CB(s, command, flag, data) ==
  IF saves_map_file(s, data) /\ data.compressed = "corrupt"
    THEN Throw(s, data)
    ELSE
      LET s1 == IF saves_map_file(s, data)
                  THEN [s EXCEPT !.saved_files = @ \cup {<<"map", data.dword3>>}]
                  ELSE s
      IN IF /\ data.subcommand # -1
            /\ s1.next_drop_item.data1d0 # 0
            /\ s1.version # "BB"
           THEN IF data.subcommand = 96
                  THEN IF ~check_size_lax(data.size)
                         THEN Throw(s1, data)
                         ELSE inject_next_drop_item(s1, data, TRUE)
                ELSE IF data.subcommand = 162
                  THEN IF ~check_size_strict(data.size)
                         THEN Throw(s1, data)
                         ELSE inject_next_drop_item(s1, data, FALSE)
                ELSE HandlerResult("FORWARD", s1, data)
           ELSE HandlerResult("FORWARD", s1, data)

(***************************************************************************)
(* Saving the files upstream sends                                          *)
(***************************************************************************)
\* the size of S_WriteFile_13_A7::data, the most that is written for a chunk
WriteFileDataSize == 1024

\* std::map::emplace: an entry that exists is kept
map_emplace(m, key, value) ==
  IF key \in DOMAIN m
    THEN m
    ELSE [k \in DOMAIN m \cup {key} |-> IF k = key THEN value ELSE m[k]]

map_erase(m, key) == [k \in DOMAIN m \ {key} |-> m[k]]

\* SavingFile(basename, output_filename, remaining_bytes); the output file
\* is named after the file, its kind and the time
SavingFile(filename, is_download_quest, file_size) ==
  [basename |-> filename,
   output_filename |-> <<filename, IF is_download_quest THEN "download" ELSE "online">>,
   remaining_bytes |-> file_size]

\* fwritex(sf->f.get(), cmd.data, bytes_to_write)
fwritex(s, output_filename, bytes_to_write) ==
  [s EXCEPT !.file_writes =
     Append(@, [size |-> bytes_to_write, output_filename |-> output_filename])]

\* the command is checked against S_OpenFile_PC_V3_44_A6 whatever structure
\* the handler is registered for
process_server_44_A6(s, command, flag, data) ==
  IF s.save_files
    THEN IF ~check_size_strict(data.size)
           THEN Throw(s, data)
           ELSE HandlerResult("FORWARD",
                  [s EXCEPT !.saving_files =
                     map_emplace(@, data.filename,
                       SavingFile(data.filename, command = 166, data.file_size))],
                  data)
    ELSE HandlerResult("FORWARD", s, data)

\* A chunk written whole whatever its size.
write_file_chunk_unbounded(s, data) ==
  LET sf == s.saving_files[data.filename]
      bytes_to_write == data.data_size
      s1 == fwritex(s, sf.output_filename, bytes_to_write)
      remaining_bytes == IF bytes_to_write > sf.remaining_bytes
                           THEN 0
                           ELSE sf.remaining_bytes - bytes_to_write
  IN IF remaining_bytes = 0
       THEN [s1 EXCEPT !.saving_files = map_erase(@, data.filename)]
       ELSE [s1 EXCEPT !.saving_files[data.filename].remaining_bytes = remaining_bytes]

\* lines 813-832: the chunk of a file that is being saved
write_file_chunk(s, data) ==
  LET sf == s.saving_files[data.filename]
      bytes_to_write == IF data.data_size > WriteFileDataSize
                          THEN WriteFileDataSize
                          ELSE data.data_size
      s1 == fwritex(s, sf.output_filename, bytes_to_write)
      remaining_bytes == IF bytes_to_write > sf.remaining_bytes
                           THEN 0
                           ELSE sf.remaining_bytes - bytes_to_write
  IN IF remaining_bytes = 0
       THEN [s1 EXCEPT !.saving_files = map_erase(@, data.filename)]
       ELSE [s1 EXCEPT !.saving_files[data.filename].remaining_bytes = remaining_bytes]

process_server_13_A7(s, command, flag, data) ==
  IF s.save_files
    THEN IF ~check_size_strict(data.size)
           THEN Throw(s, data)
         ELSE IF data.filename \notin DOMAIN s.saving_files
           THEN HandlerResult("FORWARD", s, data)
         ELSE HandlerResult("FORWARD", write_file_chunk(s, data), data)
    ELSE HandlerResult("FORWARD", s, data)

(***************************************************************************)
(* Chat from the client                                                     *)
(***************************************************************************)
\* A chat text is a sequence of code units: bytes of the vendor code page on
\* DC and V3, UTF-16 units on PC and BB.  The code units of the model are
\* ASCII, which both encodings share.
CharNul == 0
CharTab == 9
CharDollar == 36
CharC == 67
CharJ == 74

\* sizeof(C_Chat_06): two 32-bit words before the text
SizeofChat06 == 8

\* the size of a payload with which the text is looked at
ChatMinSize == 12

sizeof_chat_char(version) == IF version \in {"PC", "BB"} THEN 2 ELSE 1

\* decode_sjis on the code units of the model: an ASCII byte is the
\* character with the same code
decode_sjis(bytes) == [i \in 1..Len(bytes) |-> bytes[i] % 128]

RECURSIVE strip_trailing_zeroes(_)
strip_trailing_zeroes(text) ==
  IF text # <<>> /\ text[Len(text)] = CharNul
    THEN strip_trailing_zeroes(SubSeq(text, 1, Len(text) - 1))
    ELSE text

\* text[i] of a basic_string (i counted from 0): the terminator at size(),
\* and past it whatever lies in memory there
string_at(text, i, past_end) ==
  IF i < Len(text) THEN text[i + 1]
  ELSE IF i = Len(text) THEN CharNul
  ELSE past_end

\* text.substr(pos): out_of_range when pos is past the end
substr_throws(text, pos) == pos > Len(text)

substr(text, pos) == SubSeq(text, pos + 1, Len(text))

\* the chat-command dispatcher: the session keeps the lines handed to it
process_chat_command(s, text) == [s EXCEPT !.chat_commands = Append(@, text)]

\* send_chat_message(channel, text)
send_chat_message_to_server(s, text) ==
  channel_send(s, TRUE, 6, 0, [name |-> "chat", text |-> text])

\* add_color_inplace on the text of the command
add_color_inplace(data) == [data EXCEPT !.colored = TRUE]

chat_is_command(text, past_end) ==
  \/ string_at(text, 0, past_end) = CharDollar
  \/ /\ string_at(text, 0, past_end) = CharTab
     /\ string_at(text, 1, past_end) # CharC
     /\ string_at(text, 2, past_end) = CharDollar

process_client_06(s, command, flag, data) ==
  IF data.size >= ChatMinSize
    THEN
      LET units == (data.size - SizeofChat06) \div sizeof_chat_char(s.version)
          raw == SubSeq(data.text, 1, units)
          text == strip_trailing_zeroes(
                    IF s.version \in {"PC", "BB"} THEN raw ELSE decode_sjis(raw))
      IN IF text = <<>>
           THEN HandlerResult("SUPPRESS", s, data)
         ELSE IF chat_is_command(text, data.past_end)
           THEN LET pos == IF text[1] = CharDollar THEN 0 ELSE 2
                    line == substr(text, pos)
                IN IF substr_throws(text, pos)
                     THEN Throw(s, data)
                   ELSE IF Len(line) >= 2 /\ line[2] = CharDollar
                     THEN HandlerResult("SUPPRESS",
                            send_chat_message_to_server(s, substr(line, 1)), data)
                   ELSE HandlerResult("SUPPRESS", process_chat_command(s, line), data)
         ELSE IF s.enable_chat_filter
           THEN HandlerResult("FORWARD", s, add_color_inplace(data))
         ELSE HandlerResult("FORWARD", s, data)
    ELSE HandlerResult("FORWARD", s, data)

(***************************************************************************)
(* Identity rewriting, client to server                                    *)
(***************************************************************************)
process_client_40(s, command, flag, data) ==
  IF s.license # 0
    THEN IF ~check_size_strict(data.size)
           THEN Throw(s, data)
           ELSE LET data1 == [data EXCEPT
                                !.searcher_guild_card_number = outbound_guild_card(s, @),
                                !.target_guild_card_number = outbound_guild_card(s, @)]
                    modified == \/ data.searcher_guild_card_number = s.license
                                \/ data.target_guild_card_number = s.license
                IN HandlerResult(IF modified THEN "MODIFIED" ELSE "FORWARD", s, data1)
    ELSE HandlerResult("FORWARD", s, data)

process_client_81(s, command, flag, data) ==
  IF ~check_size_strict(data.size)
    THEN Throw(s, data)
    ELSE LET data1 == IF s.license # 0
                        THEN [data EXCEPT
                                !.from_guild_card_number = outbound_guild_card(s, @),
                                !.to_guild_card_number = outbound_guild_card(s, @)]
                        ELSE data
         IN HandlerResult("MODIFIED", s, [data1 EXCEPT !.text_tail = "cleared"])

\* the amounts of the restore-HP chain of lines 1087-1097
RECURSIVE restore_hp_steps(_)
restore_hp_steps(amount) ==
  IF amount > 0
    THEN LET step == IF amount > 255 THEN 255 ELSE amount
         IN <<step>> \o restore_hp_steps(amount - step)
    ELSE <<>>

\* A switch assist that never remembers a command.
process_client_60_62_6C_6D_C9_CB_void_forgetful(s, command, flag, data) ==
  IF data.subcommand = 5 /\ s.switch_assist /\ ~check_size_strict(data.size)
    THEN Throw(s, data)
    ELSE HandlerResult("FORWARD", s, data)

\* process_client_60_62_6C_6D_C9_CB<void>
process_client_60_62_6C_6D_C9_CB_void(s, command, flag, data) ==
  IF data.subcommand = 5 /\ s.switch_assist
    THEN IF ~check_size_strict(data.size)
           THEN Throw(s, data)
         ELSE IF data.enabled /\ data.switch_id # 65535
           THEN LET s1 == IF s.last_switch_enabled_command.subcommand = 5
                            THEN channel_send(
                                   channel_send(s, TRUE, 96, 0, s.last_switch_enabled_command),
                                   FALSE, 96, 0, s.last_switch_enabled_command)
                            ELSE s
                IN HandlerResult("FORWARD",
                     [s1 EXCEPT !.last_switch_enabled_command = data], data)
         ELSE HandlerResult("FORWARD", s, data)
    ELSE HandlerResult("FORWARD", s, data)

\* process_client_60_62_6C_6D_C9_CB<SendGuildCardCmdT>; a payload with no
\* bytes has subcommand -1
process_client_60_62_6C_6D_C9_CB(s, command, flag, data) ==
  IF s.license # 0 /\ data.subcommand = 6 /\ ~check_size_strict(data.size)
    THEN Throw(s, data)
    ELSE
      LET data1 == IF s.license # 0 /\ data.subcommand = 6
                     THEN [data EXCEPT !.guild_card_number = outbound_guild_card(s, @)]
                     ELSE data
          s1 == IF data.subcommand \in {47, 76} /\ s.infinite_hp
                  THEN channel_send(s, FALSE, 96, 0,
                         [name |-> "stats_change", client_id |-> s.lobby_client_id,
                          stat |-> "ADD_HP", amounts |-> restore_hp_steps(1020)])
                ELSE IF data.subcommand = 72 /\ s.infinite_tp
                  THEN channel_send(s, FALSE, 96, 0,
                         [name |-> "stats_change", client_id |-> s.lobby_client_id,
                          stat |-> "ADD_TP", amounts |-> <<255>>])
                ELSE s
      IN process_client_60_62_6C_6D_C9_CB_void(s1, command, flag, data1)

(***************************************************************************)
(* Return to the home server                                                *)
(***************************************************************************)
\* s->name
ServerStateName == "name"

\* version_to_port_name, indexed by GameVersion (DC, PC, PATCH, GC, XB, BB)
version_to_port_name(version) ==
  CASE version = "DC" -> "console-login"
    [] version = "PC" -> "pc-login"
    [] version = "PATCH" -> "bb-patch"
    [] version = "GC" -> "console-login"
    [] version = "XB" -> "console-login"
    [] version = "BB" -> "bb-login"

\* s->name_to_port_config.at(name)->port: the ports of the configuration
name_to_port_config(name) ==
  CASE name = "console-login" -> 5100
    [] name = "pc-login" -> 5101
    [] name = "bb-patch" -> 11000
    [] name = "bb-login" -> 12000

\* lines 1147-1156: a 69 for every slot of the mirror that holds a player
RECURSIVE leave_lobby_loop(_, _)
leave_lobby_loop(s, x) ==
  IF x >= Len(s.lobby_players)
    THEN s
    ELSE IF s.lobby_players[x + 1].guild_card_number = 0
           THEN leave_lobby_loop(s, x + 1)
           ELSE leave_lobby_loop(
                  channel_send(s, FALSE, 105, x,
                    [size |-> "exact", leader_id |-> s.lobby_client_id, client_id |-> x]),
                  x + 1)

\* lines 1181-1191: the address the client is sent back to
return_home_address(s) ==
  IF s.client_channel.is_virtual_connection
    THEN s.next_destination
    ELSE s.client_channel.local_addr

\* A handler that relays the command like any other.
process_client_dc_pc_v3_A0_A1_forwarding(s, command, flag, data) ==
  HandlerResult("FORWARD", s, data)

process_client_dc_pc_v3_A0_A1(s, command, flag, data) ==
  IF s.license = 0
    THEN HandlerResult("FORWARD", s, data)
    ELSE
      LET s1 == leave_lobby_loop(s, 0)
          s2 == send_text_message_to_client(s1, 17, <<"You've returned to", ServerStateName>>)
          s3 == channel_send(s2, FALSE, 4, 0,
                  [size |-> "exact",
                   player_tag |-> PlayerTagSet,
                   guild_card_number |-> s2.license,
                   cfg |-> [flags |-> s2.newserv_client_config_flags]])
          port == name_to_port_config(version_to_port_name(s3.version))
          sin == return_home_address(s3)
      IN IF sin.sin_family # "AF_INET"
           THEN Throw(s3, data)
           ELSE HandlerResult("SUPPRESS",
                  channel_send(s3, FALSE, 25, 0,
                    store_u16l(store_raw(Zeroes(ReconnectSize), 1, sin.sin_addr), 5, port)),
                  data)

(***************************************************************************)
(* Dispatch                                                                 *)
(***************************************************************************)
\* entries shared by dc_, pc_, gc_, xb_ and bb_server_handlers
common_server_handlers(command) ==
  CASE command = 19 -> "process_server_13_A7"
    [] command = 25 -> "process_server_game_19_patch_14"
    [] command = 65 -> "process_server_41"
    [] command \in {68, 166} -> "process_server_44_A6"
    [] command \in {96, 98, 108, 109} -> "process_server_60_62_6C_6D_C9_CB"
    [] command = 100 -> "process_server_64"
    [] command \in {101, 103, 104} -> "process_server_65_67_68"
    [] command \in {102, 105} -> "process_server_66_69"
    [] command = 136 -> "process_server_88"
    [] command = 167 -> "process_server_13_A7"
    [] OTHER -> "process_default"

dc_server_handlers(command) ==
  CASE command \in {2, 23} -> "process_server_dc_pc_v3_patch_02_17"
    [] command = 4 -> "process_server_dc_pc_v3_04"
    [] command = 6 -> "process_server_dc_pc_v3_06"
    [] command = 151 -> "process_server_97"
    [] OTHER -> common_server_handlers(command)

pc_server_handlers(command) == dc_server_handlers(command)

xb_server_handlers(command) ==
  CASE command \in {26, 213} -> "process_server_v3_1A_D5"
    [] command = 129 -> "process_server_81"
    [] command = 178 -> "process_server_B2"
    [] command = 196 -> "process_server_C4"
    [] command \in {201, 203} -> "process_server_60_62_6C_6D_C9_CB"
    [] OTHER -> dc_server_handlers(command)

gc_server_handlers(command) ==
  CASE command = 154 -> "process_server_gc_9A"
    [] command = 184 -> "process_server_gc_B8"
    [] command = 228 -> "process_server_gc_E4"
    [] OTHER -> xb_server_handlers(command)

bb_server_handlers(command) ==
  CASE command = 3 -> "process_server_bb_03"
    [] command = 34 -> "process_server_bb_22"
    [] command = 178 -> "process_server_B2"
    [] command = 231 -> "process_server_E7"
    [] OTHER -> common_server_handlers(command)

patch_server_handlers(command) ==
  CASE command = 2 -> "process_server_dc_pc_v3_patch_02_17"
    [] command = 20 -> "process_server_game_19_patch_14"
    [] OTHER -> "process_default"

dc_client_handlers(command) ==
  CASE command = 6 -> "process_client_06"
    [] command = 64 -> "process_client_40"
    [] command \in {96, 98, 108, 109} -> "process_client_60_62_6C_6D_C9_CB_void"
    [] command \in {160, 161} -> "process_client_dc_pc_v3_A0_A1"
    [] OTHER -> "process_default"

pc_client_handlers(command) == dc_client_handlers(command)

gc_client_handlers(command) ==
  CASE command \in {96, 98, 108, 109} -> "process_client_60_62_6C_6D_C9_CB"
    [] command = 129 -> "process_client_81"
    [] OTHER -> dc_client_handlers(command)

xb_client_handlers(command) == gc_client_handlers(command)

bb_client_handlers(command) ==
  CASE command = 6 -> "process_client_06"
    [] command = 64 -> "process_client_40"
    [] command \in {96, 98, 108, 109} -> "process_client_60_62_6C_6D_C9_CB"
    [] OTHER -> "process_default"

patch_client_handlers(command) == "process_default"

\* the parameter is a uint8_t: the tables are indexed with the low byte of
\* the command
get_handler(version, from_server, command) ==
  IF from_server
    THEN CASE version = "DC" -> dc_server_handlers(command % 256)
           [] version = "PC" -> pc_server_handlers(command % 256)
           [] version = "PATCH" -> patch_server_handlers(command % 256)
           [] version = "GC" -> gc_server_handlers(command % 256)
           [] version = "XB" -> xb_server_handlers(command % 256)
           [] version = "BB" -> bb_server_handlers(command % 256)
    ELSE CASE version = "DC" -> dc_client_handlers(command % 256)
           [] version = "PC" -> pc_client_handlers(command % 256)
           [] version = "PATCH" -> patch_client_handlers(command % 256)
           [] version = "GC" -> gc_client_handlers(command % 256)
           [] version = "XB" -> xb_client_handlers(command % 256)
           [] version = "BB" -> bb_client_handlers(command % 256)

\* the call `fn(s, session, command, flag, data)` of process_proxy_command
call_handler(fn, s, command, flag, data) ==
  CASE fn = "process_default" -> process_default(s, command, flag, data)
    [] fn = "process_server_97" -> process_server_97(s, command, flag, data)
    [] fn = "process_server_gc_9A" -> process_server_gc_9A(s, command, flag, data)
    [] fn = "process_server_dc_pc_v3_patch_02_17" ->
         process_server_dc_pc_v3_patch_02_17(s, command, flag, data)
    [] fn = "process_server_bb_03" -> process_server_bb_03(s, command, flag, data)
    [] fn = "process_server_bb_22" -> process_server_bb_22(s, command, flag, data)
    [] fn = "process_server_dc_pc_v3_04" -> process_server_dc_pc_v3_04(s, command, flag, data)
    [] fn = "process_server_dc_pc_v3_06" -> process_server_dc_pc_v3_06(s, command, flag, data)
    [] fn = "process_server_41" -> process_server_41(s, command, flag, data)
    [] fn = "process_server_81" -> process_server_81(s, command, flag, data)
    [] fn = "process_server_88" -> process_server_88(s, command, flag, data)
    [] fn = "process_server_C4" -> process_server_C4(s, command, flag, data)
    [] fn = "process_server_gc_E4" -> process_server_gc_E4(s, command, flag, data)
    [] fn = "process_server_64" -> process_server_64(s, command, flag, data)
    [] fn = "process_server_65_67_68" -> process_server_65_67_68(s, command, flag, data)
    [] fn = "process_server_66_69" -> process_server_66_69(s, command, flag, data)
    [] fn = "process_server_game_19_patch_14" ->
         process_server_game_19_patch_14(s, command, flag, data)
    [] fn = "process_server_60_62_6C_6D_C9_CB" ->
         process_server_60_62_6C_6D_C9_CB(s, command, flag, data)
    [] fn = "process_server_v3_1A_D5" -> process_server_v3_1A_D5(s, command, flag, data)
    [] fn = "process_server_44_A6" -> process_server_44_A6(s, command, flag, data)
    [] fn = "process_server_13_A7" -> process_server_13_A7(s, command, flag, data)
    [] fn = "process_client_06" -> process_client_06(s, command, flag, data)
    [] fn = "process_client_40" -> process_client_40(s, command, flag, data)
    [] fn = "process_client_dc_pc_v3_A0_A1" ->
         process_client_dc_pc_v3_A0_A1(s, command, flag, data)
    [] fn = "process_client_81" -> process_client_81(s, command, flag, data)
    [] fn = "process_client_60_62_6C_6D_C9_CB" ->
         process_client_60_62_6C_6D_C9_CB(s, command, flag, data)
    [] fn = "process_client_60_62_6C_6D_C9_CB_void" ->
         process_client_60_62_6C_6D_C9_CB_void(s, command, flag, data)

handler_result(s, from_server, command, flag, data) ==
  call_handler(get_handler(s.version, from_server, command), s, command, flag, data)

process_proxy_command(s, from_server, command, flag, data) ==
  LET res == handler_result(s, from_server, command, flag, data)
  IN CASE res.type = "FORWARD" ->
            forward_command(res.session, ~from_server, command, flag, res.data)
       [] res.type = "MODIFIED" ->
            forward_command(res.session, ~from_server,
              IF res.new_command >= 0 THEN res.new_command ELSE command,
              IF res.new_flag >= 0 THEN res.new_flag ELSE flag,
              res.data)
       [] res.type = "SUPPRESS" -> res.session
       [] res.type = "THROW" -> session_disconnect(res.session)
       [] res.type = "UB" -> [res.session EXCEPT !.crashed = TRUE]

(***************************************************************************)
(* The session as ProxyServer creates it                                    *)
(***************************************************************************)
NoAddress == [sin_family |-> "AF_UNSPEC", sin_addr |-> Zeroes(4), sin_port |-> 0]

\* the ciphers of a client channel that was handed over by the home server
HomeCrypt(version, which) ==
  CASE version = "BB" -> NoCrypt
    [] version \in {"GC", "XB"} -> PSOV3Encryption(0)
    [] OTHER -> PSOV2Encryption(0)

\* the detector of a BB session resumed from an unlinked session
HomeDetector == PSOBBMultiKeyDetectorEncryption(bb_private_keys, expected_first_data, 0)

\* license: the serial number of session.license, 0 for a null pointer.
\* resumed: the client channel was handed over with its ciphers installed.
NewSession(version, license, remote, resumed, client) ==
  [to_server |-> <<>>,
   server_channel |-> [connected |-> TRUE, crypt_out |-> NoCrypt, crypt_in |-> NoCrypt],
   client_channel |->
     [connected |-> client.connected,
      crypt_out |-> IF ~resumed THEN NoCrypt
                    ELSE IF version = "BB"
                      THEN PSOBBMultiKeyImitatorEncryption(HomeDetector, 0, TRUE)
                    ELSE HomeCrypt(version, "out"),
      crypt_in |-> IF ~resumed THEN NoCrypt
                   ELSE IF version = "BB" THEN HomeDetector
                   ELSE HomeCrypt(version, "in"),
      local_addr |-> client.local_addr,
      is_virtual_connection |-> client.is_virtual_connection],
   to_client |-> <<>>,
   disconnected |-> FALSE,
   newserv_client_config_flags |-> client.flags,
   remote_guild_card_number |-> remote,
   license |-> license,
   remote_client_config_data |-> [i \in 1..ClientConfigSize |-> <<"init", 0, i>>],
   version |-> version,
   detector_crypt |-> IF resumed /\ version = "BB" THEN HomeDetector ELSE NoCrypt,
   login_command_bb |-> [size |-> client.login_size, dword_94 |-> 0],
   enable_remote_ip_crc_patch |-> FALSE,
   remote_ip_crc |-> crc32(<<>>),
   leader_client_id |-> 0,
   lobby_client_id |-> 0,
   lobby_players |-> <<>>,
   override_lobby_event |-> -1,
   override_lobby_number |-> -1,
   sub_version |-> client.sub_version,
   override_section_id |-> -1,
   override_random_seed |-> -1,
   prev_server_command_bytes |-> client.prev_server_command_bytes,
   local_port |-> client.local_port,
   next_destination |-> NoAddress,
   connected_to |-> NoAddress,
   next_drop_item |-> NoItem,
   next_item_id |-> 251658240,
   save_files |-> FALSE,
   saved_files |-> {},
   file_writes |-> <<>>,
   saving_files |-> <<>>,
   chat_commands |-> <<>>,
   enable_chat_filter |-> FALSE,
   switch_assist |-> FALSE,
   last_switch_enabled_command |-> [subcommand |-> 0],
   infinite_hp |-> FALSE,
   infinite_tp |-> FALSE,
   crashed |-> FALSE]

\* a client on a real IPv4 socket, connected
DefaultClient ==
  [connected |-> TRUE,
   sub_version |-> 48,
   prev_server_command_bytes |-> Zeroes(PrevServerCommandBytesSize),
   local_addr |-> [sin_family |-> "AF_INET", sin_addr |-> <<10, 0, 0, 1>>,
                   sin_port |-> htons(9100)],
   is_virtual_connection |-> FALSE,
   local_port |-> 9100,
   flags |-> {},
   login_size |-> 0]

\* the proxy specifications have no game server of their own
NoServer == [clients |-> <<>>]

NoCommand ==
  [command |-> -1, flag |-> 0, data |-> <<>>, from_server |-> TRUE,
   handler |-> "none", result |-> "none", reply |-> FALSE, in_reply_to |-> <<>>]

\* One command read from a channel and handed to process_proxy_command.
\* to_client / to_server hold what this command made the proxy send, and
\* chat_commands what it handed to the chat-command dispatcher, file_writes
\* what it wrote to the files it saves.  A
\* command the peer sends in answer to the one it has just been passed
\* carries that one along as in_reply_to.
ReceiveCommand(from_server, command, flag, data, reply, in_reply_to) ==
  /\ ~session.disconnected
  /\ ~session.crashed
  /\ from_server \/ session.client_channel.connected
  /\ LET s0 == [session EXCEPT !.to_client = <<>>, !.to_server = <<>>,
                              !.chat_commands = <<>>, !.file_writes = <<>>]
     IN /\ session' = process_proxy_command(s0, from_server, command, flag, data)
        /\ last' = [command |-> command, flag |-> flag, data |-> data,
                    from_server |-> from_server,
                    handler |-> get_handler(s0.version, from_server, command),
                    result |-> handler_result(s0, from_server, command, flag, data).type,
                    reply |-> reply,
                    in_reply_to |-> in_reply_to]

\* a command read while the game server of the model stays as it is
ReceiveReply(from_server, command, flag, data, reply, in_reply_to) ==
  /\ ReceiveCommand(from_server, command, flag, data, reply, in_reply_to)
  /\ UNCHANGED server

Receive(from_server, command, flag, data) ==
  ReceiveReply(from_server, command, flag, data, FALSE, <<>>)

(***************************************************************************)
(* Encryption splicing: the commands upstream opens a connection with      *)
(***************************************************************************)
\* a server-init of exactly the size up to after_message with every pair of
\* keys, and a shorter and a longer one
ServerInitData ==
  [size : {"exact"}, server_key : Keys, client_key : Keys]
    \cup [size : {"short", "long"}, server_key : {1}, client_key : {MaxKey}]

Server_02_17 ==
  \E command \in {2, 23}, data \in ServerInitData :
    Receive(TRUE, command, 0, data)

Server_bb_03 ==
  \E data \in ServerInitData : Receive(TRUE, 3, 0, data)

Server_gc_9A ==
  Receive(TRUE, 154, 0, [name |-> "empty"])

InitServerInit ==
  /\ \E version \in Versions, license \in {0, 1}, remote \in {0, 2},
        resumed \in BOOLEAN, connected \in BOOLEAN, dcv1 \in BOOLEAN,
        login_size \in {0, 151, 152} :
       /\ login_size # 0 => version = "BB" /\ resumed
       /\ dcv1 => version \in {"DC", "PC"}
       /\ session = NewSession(version, license, remote, resumed,
                      [DefaultClient EXCEPT !.connected = connected,
                                            !.flags = IF dcv1 THEN {"DCV1"} ELSE {},
                                            !.login_size = login_size])
  /\ last = NoCommand
  /\ server = NoServer

NextServerInit == Server_02_17 \/ Server_bb_03 \/ Server_gc_9A

SpecServerInit == InitServerInit /\ [][NextServerInit]_vars

(***************************************************************************)
(* Properties of encryption splicing (SpecServerInit)                      *)
(***************************************************************************)
\* the command just handled is a server-init 02/17 that passed the size check
HandledServerInit(l) ==
  /\ l.from_server
  /\ l.handler = "process_server_dc_pc_v3_patch_02_17"
  /\ check_size_lax(l.data.size)

\* the command just handled is a BB server-init 03 that passed the size check
HandledServerInitBB(l) ==
  /\ l.from_server
  /\ l.handler = "process_server_bb_03"
  /\ check_size_lax(l.data.size)

\* the cipher algorithm of a variant's 02/17 handshake
ServerInitCrypt(version, key) ==
  IF version \in {"GC", "XB"} THEN PSOV3Encryption(key) ELSE PSOV2Encryption(key)

\* C4 (as stated): every server-init 02/17 from upstream is delivered to the
\* connected client exactly once and verbatim, sent before any new cipher is
\* installed on the client channel.
C4_ServerInitAlwaysForwarded ==
  [][(HandledServerInit(last') /\ session.client_channel.connected) =>
       session'.to_client =
         <<Frame(last'.command, last'.flag, last'.data, session.client_channel.crypt_out)>>]_vars

\* C4 (amended): in a session without a license a server-init 02/17 is
\* delivered to the connected client exactly once and verbatim, under the
\* cipher the client channel had before the command (none on a new
\* channel), and the new ciphers are installed afterwards; in a session with
\* a license the server-init is not delivered to the client at all.
C4_ServerInitForwardedWhenUnlicensed ==
  [][(HandledServerInit(last') /\ session.client_channel.connected) =>
       IF session.license = 0
         THEN /\ session'.to_client =
                   <<Frame(last'.command, last'.flag, last'.data,
                           session.client_channel.crypt_out)>>
              /\ session'.client_channel.crypt_out =
                   ServerInitCrypt(session.version, last'.data.server_key)
         ELSE session'.to_client = <<>>]_vars

\* C4 witness: an unlicensed session has passed a server-init on in the clear
\* and now has a cipher on the client channel.
C4_Witness ==
  /\ HandledServerInit(last)
  /\ session.license = 0
  /\ Len(session.to_client) = 1
  /\ session.to_client[1].crypt = NoCrypt
  /\ session.to_client[1].data = last.data
  /\ session.client_channel.crypt_out # NoCrypt

\* C5: after a server-init 02/17 carrying (server_key, client_key) the
\* upstream channel decrypts with server_key and encrypts with client_key,
\* and, where the client channel's ciphers are installed (no license), the
\* client channel decrypts with client_key and encrypts with server_key, all
\* with V3 on GC and XB and with V2 on DC, PC and the patcher.
C5_CipherPairing ==
  HandledServerInit(last) =>
    /\ session.server_channel.crypt_in =
         ServerInitCrypt(session.version, last.data.server_key)
    /\ session.server_channel.crypt_out =
         ServerInitCrypt(session.version, last.data.client_key)
    /\ session.license = 0 =>
         /\ session.client_channel.crypt_in =
              ServerInitCrypt(session.version, last.data.client_key)
         /\ session.client_channel.crypt_out =
              ServerInitCrypt(session.version, last.data.server_key)

C5_Witness ==
  /\ HandledServerInit(last)
  /\ session.version = "GC"
  /\ session.license = 0
  /\ last.data.server_key # last.data.client_key
  /\ session.client_channel.crypt_in = PSOV3Encryption(last.data.client_key)
  /\ session.server_channel.crypt_in = PSOV3Encryption(last.data.server_key)

\* the login command a licensed session answers a server-init with
ExpectedLoginCommand(s, command) ==
  CASE s.version = "PATCH" -> 2
    [] s.version \in {"DC", "PC"} ->
         IF "DCV1" \in s.newserv_client_config_flags THEN 147 ELSE 157
    [] s.version = "GC" -> IF command = 23 THEN 219 ELSE 158
    [] OTHER -> -1

\* C6: in a session with a license, a server-init 02/17 makes the proxy send
\* exactly one login command upstream, under the upstream cipher it has just
\* installed (02 on the patcher, 93 or 9D on DC/PC by the DCV1 flag, DB on
\* GC for 17, 9E on GC for 02), nothing reaches the client and the handler
\* returns SUPPRESS; on XB the handler fails and the session is
\* disconnected with nothing sent.
C6_LoginSynthesized ==
  (HandledServerInit(last) /\ session.license # 0) =>
    IF session.version = "XB"
      THEN /\ last.result = "THROW"
           /\ session.disconnected
           /\ session.to_server = <<>>
           /\ session.to_client = <<>>
      ELSE /\ last.result = "SUPPRESS"
           /\ session.to_client = <<>>
           /\ Len(session.to_server) = 1
           /\ session.to_server[1].command = ExpectedLoginCommand(session, last.command)
           /\ session.to_server[1].crypt =
                ServerInitCrypt(session.version, last.data.client_key)
           /\ session.version # "PATCH" =>
                session.to_server[1].data.serial_number = string_printf_08X(session.license)

C6_Witness ==
  /\ HandledServerInit(last)
  /\ session.license # 0
  /\ session.version = "GC"
  /\ last.command = 2
  /\ Len(session.to_server) = 1
  /\ session.to_server[1].command = 158
  /\ session.to_server[1].data.guild_card_number = session.remote_guild_card_number

\* what both versions of C7 say about a BB server-init 03 in a session that
\* has no detector yet, for a detector keyed with `key`
NewDetectorInstalled(s, l, t, key) ==
  LET det == PSOBBMultiKeyDetectorEncryption(bb_private_keys, expected_first_data, key)
  IN /\ s.client_channel.connected =>
          t.to_client = <<Frame(3, 0, l.data, s.client_channel.crypt_out)>>
     /\ t.detector_crypt = det
     /\ t.client_channel.crypt_in = det
     /\ t.client_channel.crypt_out.type = "BBImitator"
     /\ t.client_channel.crypt_out.detector = det
     /\ t.server_channel.crypt_in.type = "BBImitator"
     /\ t.server_channel.crypt_in.detector = det
     /\ t.server_channel.crypt_out.type = "BBImitator"
     /\ t.server_channel.crypt_out.detector = det

\* C7 (as stated): the detector of a new BB session is created from the
\* server-init's server key.
C7_DetectorFromServerKey ==
  [][(HandledServerInitBB(last') /\ session.detector_crypt = NoCrypt) =>
       NewDetectorInstalled(session, last', session', last'.data.server_key)]_vars

\* C7 (amended): on a BB server-init 03 in a session without a detector the
\* proxy passes the 03 on to the client before it installs any cipher,
\* creates a detector from the server-init's client key, the candidate key
\* pool and the known 8-byte prefix, installs it as client_channel.in, and
\* installs imitators bound to that detector on the three other directions.
C7_DetectorFromClientKey ==
  [][(HandledServerInitBB(last') /\ session.detector_crypt = NoCrypt) =>
       /\ NewDetectorInstalled(session, last', session', last'.data.client_key)
       /\ session'.detector_crypt.pool = bb_private_keys
       /\ session'.detector_crypt.expected = <<180, 0, 147, 0, 0, 0, 0, 0>>
       /\ session'.client_channel.crypt_out.key = last'.data.server_key
       /\ session'.server_channel.crypt_in.key = last'.data.server_key
       /\ session'.server_channel.crypt_out.key = last'.data.client_key]_vars

C7_Witness ==
  /\ HandledServerInitBB(last)
  /\ last.data.server_key # last.data.client_key
  /\ Len(session.to_client) = 1
  /\ session.to_client[1].command = 3
  /\ session.to_client[1].crypt = NoCrypt
  /\ session.detector_crypt.key = last.data.client_key
  /\ session.client_channel.crypt_in = session.detector_crypt

\* C8: on a BB server-init 03 in a session that has a detector the 03 is not
\* passed on to the client, the detector and the client channel's ciphers
\* stay as they are, imitators bound to the existing detector are installed
\* on both upstream directions and the captured login command is sent
\* upstream exactly once, as command 93; without a captured login command
\* the session is disconnected and nothing is sent upstream.
C8_ResumedSessionReplaysLogin ==
  [][(HandledServerInitBB(last') /\ session.detector_crypt # NoCrypt) =>
       /\ session'.to_client = <<>>
       /\ session'.detector_crypt = session.detector_crypt
       /\ session'.client_channel.crypt_in = session.client_channel.crypt_in
       /\ session'.client_channel.crypt_out = session.client_channel.crypt_out
       /\ IF session.login_command_bb.size = 0
            THEN /\ session'.disconnected
                 /\ session'.to_server = <<>>
            ELSE /\ ~session'.disconnected
                 /\ session'.server_channel.crypt_in =
                      PSOBBMultiKeyImitatorEncryption(
                        session.detector_crypt, last'.data.server_key, FALSE)
                 /\ session'.server_channel.crypt_out =
                      PSOBBMultiKeyImitatorEncryption(
                        session.detector_crypt, last'.data.client_key, FALSE)
                 /\ Len(session'.to_server) = 1
                 /\ session'.to_server[1].command = 147
                 /\ session'.to_server[1].data = session.login_command_bb]_vars

C8_Witness ==
  /\ HandledServerInitBB(last)
  /\ session.detector_crypt = HomeDetector
  /\ session.to_client = <<>>
  /\ Len(session.to_server) = 1
  /\ session.to_server[1].command = 147
  /\ session.to_server[1].data.size = 152
  /\ session.server_channel.crypt_in.type = "BBImitator"

(***************************************************************************)
(* Reconnect interception: the commands upstream redirects the client with *)
(***************************************************************************)
\* S_Reconnect_19 as upstream fills it: address, port (little-endian), unused
ReconnectCommands ==
  {<<a, 0, 0, 1, p, 0, 0, 0>> : a \in Bytes, p \in Bytes}

\* what upstream sends: undersize commands, whole ones, the longer
\* version-split form and one that is over the maximum size
ReconnectData ==
  UNION {{SubSeq(c, 1, n) : n \in {0, 4, 8}} : c \in ReconnectCommands}
    \cup {c \o <<7, 7, 7, 7>> : c \in ReconnectCommands}
    \cup {Zeroes(ReconnectMaxSize + 1)}

PrevServerCommandBytes ==
  {Zeroes(PrevServerCommandBytesSize),
   [i \in 1..PrevServerCommandBytesSize |-> (i % MaxByte) + 1]}

\* the patch server redirects with 14, every other server with 19
Server_19_14 ==
  \E data \in ReconnectData :
    Receive(TRUE, IF session.version = "PATCH" THEN 20 ELSE 25, 0, data)

\* the client's side of the session: gone, virtual, or on a real socket
\* bound to an IPv4 or an IPv6 address
ReconnectClients ==
  {[DefaultClient EXCEPT !.connected = FALSE],
   [DefaultClient EXCEPT !.is_virtual_connection = TRUE],
   DefaultClient,
   [DefaultClient EXCEPT !.local_addr.sin_family = "AF_INET6"]}

\* the cipher of the upstream channel once upstream's server-init has been
\* handled
UpstreamCrypt(version, key) ==
  CASE version = "BB" -> PSOBBMultiKeyImitatorEncryption(HomeDetector, key, FALSE)
    [] version \in {"GC", "XB"} -> PSOV3Encryption(key)
    [] OTHER -> PSOV2Encryption(key)

InitReconnect ==
  /\ \E version \in Versions, client \in ReconnectClients,
        prev \in PrevServerCommandBytes, patch \in BOOLEAN :
       session =
         [NewSession(version, 1, 2, version # "PATCH",
            [client EXCEPT !.prev_server_command_bytes = prev])
          EXCEPT !.enable_remote_ip_crc_patch = patch,
                 !.server_channel.crypt_in = UpstreamCrypt(version, 1),
                 !.server_channel.crypt_out = UpstreamCrypt(version, 2)]
  /\ last = NoCommand
  /\ server = NoServer

NextReconnect == Server_19_14

SpecReconnect == InitReconnect /\ [][NextReconnect]_vars

\* the command just handled is a reconnect 19 from upstream
HandledReconnect(l) ==
  /\ l.from_server
  /\ l.command = 25
  /\ l.handler = "process_server_game_19_patch_14"

\* the destination a (filled) reconnect payload names
PayloadDestination(d) ==
  [sin_family |-> "AF_INET",
   sin_addr |-> SubSeq(d, 1, 4),
   sin_port |-> ((d[5] + 256 * d[6]) % 256) * 256 + ((d[5] + 256 * d[6]) \div 256)]

\* the address and port fields of a reconnect payload
PayloadAddress(d) == SubSeq(d, 1, 4)

PayloadPort(d) == d[5] + 256 * d[6]

\* C9 (as stated): on a reconnect 19 from upstream with the client
\* connected, next_destination is the address and port of the filled
\* payload and the frame passed on to the client carries the proxy's own
\* address and port.
C9_ClientNeverLearnsDestination ==
  [][(/\ HandledReconnect(last')
      /\ session.client_channel.connected
      /\ Len(last'.data) <= ReconnectMaxSize
      /\ session.client_channel.local_addr.sin_family = "AF_INET") =>
       LET d == fill_reconnect_data(session, last'.data)
       IN /\ session'.next_destination = PayloadDestination(d)
          /\ Len(session'.to_client) = 1
          /\ PayloadAddress(session'.to_client[1].data) =
               session.client_channel.local_addr.sin_addr]_vars

\* C9 (amended): on a reconnect 19 of at most 0xB0 bytes from upstream with
\* the client connected, next_destination is the address and port of the
\* filled payload; a client on a real IPv4 socket is passed one 19 carrying
\* the address and port of the proxy's side of that socket, and a client on
\* a virtual connection is passed one 19 carrying the proxy's local port and
\* the address upstream sent.
C9_DestinationRecorded ==
  [][(/\ HandledReconnect(last')
      /\ session.client_channel.connected
      /\ Len(last'.data) <= ReconnectMaxSize) =>
       LET d == fill_reconnect_data(session, last'.data)
           sin == session.client_channel.local_addr
       IN /\ session'.next_destination = PayloadDestination(d)
          /\ IF session.client_channel.is_virtual_connection
               THEN /\ Len(session'.to_client) = 1
                    /\ session'.to_client[1].command = 25
                    /\ PayloadAddress(session'.to_client[1].data) = PayloadAddress(d)
                    /\ PayloadPort(session'.to_client[1].data) = session.local_port
             ELSE IF sin.sin_family = "AF_INET"
               THEN /\ Len(session'.to_client) = 1
                    /\ session'.to_client[1].command = 25
                    /\ PayloadAddress(session'.to_client[1].data) = sin.sin_addr
                    /\ PayloadPort(session'.to_client[1].data) = ntohs(sin.sin_port)
             ELSE session'.to_client = <<>>]_vars

\* C9 witness: a client on a real socket has been passed the proxy's
\* address while the proxy keeps the destination upstream named.
C9_Witness ==
  /\ HandledReconnect(last)
  /\ Len(last.data) = ReconnectSize
  /\ ~session.client_channel.is_virtual_connection
  /\ Len(session.to_client) = 1
  /\ PayloadAddress(session.to_client[1].data) = <<10, 0, 0, 1>>
  /\ session.next_destination.sin_addr = PayloadAddress(last.data)
  /\ session.next_destination.sin_addr # <<10, 0, 0, 1>>

\* the bytes of a reconnect payload after the address and port fields
PayloadRest(d) == SubSeq(d, 7, Len(d))

\* C10: for a client on a virtual connection a reconnect 19 is passed on
\* with only its port field changed, to session.local_port, and its address
\* as upstream sent it; for a client on a real socket the address and port
\* fields become those of the client channel's local address and the rest
\* of the payload is unchanged; a local address that is not IPv4 makes the
\* handler fail, nothing is passed on and the session is disconnected.
C10_VirtualConnectionKeepsAddress ==
  [][(/\ HandledReconnect(last')
      /\ session.client_channel.connected
      /\ Len(last'.data) <= ReconnectMaxSize) =>
       LET d == fill_reconnect_data(session, last'.data)
           sin == session.client_channel.local_addr
       IN IF session.client_channel.is_virtual_connection
            THEN /\ last'.result = "MODIFIED"
                 /\ session'.to_client =
                      <<Frame(25, last'.flag,
                              [d EXCEPT ![5] = session.local_port % 256,
                                        ![6] = session.local_port \div 256],
                              session.client_channel.crypt_out)>>
          ELSE IF sin.sin_family # "AF_INET"
            THEN /\ last'.result = "THROW"
                 /\ session'.to_client = <<>>
                 /\ session'.disconnected
          ELSE /\ last'.result = "MODIFIED"
               /\ Len(session'.to_client) = 1
               /\ Len(session'.to_client[1].data) = Len(d)
               /\ PayloadAddress(session'.to_client[1].data) = sin.sin_addr
               /\ PayloadPort(session'.to_client[1].data) = ntohs(sin.sin_port)
               /\ PayloadRest(session'.to_client[1].data) = PayloadRest(d)]_vars

\* C10 witness: a client on a virtual connection has been passed the
\* address upstream sent with the proxy's local port.
C10_Witness ==
  /\ HandledReconnect(last)
  /\ Len(last.data) > ReconnectSize
  /\ session.client_channel.is_virtual_connection
  /\ Len(session.to_client) = 1
  /\ PayloadAddress(session.to_client[1].data) = PayloadAddress(last.data)
  /\ PayloadPort(session.to_client[1].data) = session.local_port
  /\ PayloadPort(last.data) # session.local_port
  /\ PayloadRest(session.to_client[1].data) = PayloadRest(last.data)

(***************************************************************************)
(* Identity rewriting: the commands that carry guild card numbers          *)
(***************************************************************************)
GameVersions == Versions \ {"PATCH"}

Server_04 ==
  \E size \in {UpdateClientConfigCfgOffset - 1, UpdateClientConfigSize},
     g \in 1..MaxGuildCard :
    Receive(TRUE, 4, 0,
      [size |-> size, guild_card_number |-> g, cfg |-> 0, beyond |-> 0])

Server_06 ==
  \E g \in GuildCards :
    Receive(TRUE, 6, 0, [size |-> "long", guild_card_number |-> g])

Server_41 ==
  \E a \in GuildCards, b \in GuildCards :
    Receive(TRUE, 65, 0,
      [size |-> "exact", searcher_guild_card_number |-> a, result_guild_card_number |-> b])

Server_81 ==
  \E a \in GuildCards, b \in {0, 1} :
    Receive(TRUE, 129, 0,
      [size |-> "exact", from_guild_card_number |-> a, to_guild_card_number |-> b,
       text_tail |-> "kept"])

\* arrow lists and choice-search results of one or two entries
GuildCardEntries ==
  {<<[guild_card_number |-> g]>> : g \in GuildCards}
    \cup {<<[guild_card_number |-> 0], [guild_card_number |-> g]>> : g \in GuildCards}

Server_88_C4 ==
  \E command \in {136, 196}, entries \in GuildCardEntries :
    Receive(TRUE, command, Len(entries), [entries |-> entries])

Server_E4 ==
  \E k \in {1, 4}, g \in GuildCards :
    Receive(TRUE, 228, 0,
      [size |-> "exact",
       entries |-> [x \in 1..4 |-> [guild_card_number |-> IF x = k THEN g ELSE 0]]])

Client_40 ==
  \E a \in GuildCards, b \in GuildCards :
    Receive(FALSE, 64, 0,
      [size |-> "exact", searcher_guild_card_number |-> a, target_guild_card_number |-> b])

Client_81 ==
  \E a \in GuildCards, b \in {0, 1} :
    Receive(FALSE, 129, 0,
      [size |-> "exact", from_guild_card_number |-> a, to_guild_card_number |-> b,
       text_tail |-> "kept"])

Client_6x06 ==
  \E command \in {96, 98}, g \in GuildCards :
    Receive(FALSE, command, 0, [size |-> "exact", guild_card_number |-> g, subcommand |-> 6])

\* upstream answers the search it was passed: the result names the
\* searcher and the target as upstream saw them
Server_41_Reply ==
  /\ ~last.from_server
  /\ last.command = 64
  /\ Len(session.to_server) = 1
  /\ ReceiveReply(TRUE, 65, 0,
       [size |-> "exact",
        searcher_guild_card_number |-> session.to_server[1].data.searcher_guild_card_number,
        result_guild_card_number |-> session.to_server[1].data.target_guild_card_number],
       TRUE, last.data)

\* the client searches for the player of the result it was passed
Client_40_Reply ==
  /\ last.from_server
  /\ last.command = 65
  /\ ~last.reply
  /\ Len(session.to_client) = 1
  /\ ReceiveReply(FALSE, 64, 0,
       [size |-> "exact",
        searcher_guild_card_number |-> session.to_client[1].data.searcher_guild_card_number,
        target_guild_card_number |-> session.to_client[1].data.result_guild_card_number],
       TRUE, last.data)

\* a session (license serial 1, or none) that upstream has given no guild
\* card number yet
InitIdentity ==
  /\ \E version \in GameVersions, license \in {0, 1} :
       session = NewSession(version, license, 0, TRUE, DefaultClient)
  /\ last = NoCommand
  /\ server = NoServer

NextIdentity ==
  \/ Server_04
  \/ Server_06
  \/ Server_41
  \/ Server_81
  \/ Server_88_C4
  \/ Server_E4
  \/ Client_40
  \/ Client_81
  \/ Client_6x06
  \/ Server_41_Reply
  \/ Client_40_Reply

SpecIdentity == InitIdentity /\ [][NextIdentity]_vars

(***************************************************************************)
(* Identity rewriting: the commands a lobby or a game is joined with       *)
(***************************************************************************)
\* a join-game command with `flag` players of which the k-th has number g
Server_64 ==
  \E flag \in {1, 4}, k \in {1, 2}, g \in GuildCards :
    Receive(TRUE, 100, flag,
      [size |-> "CmdT", leader_id |-> 0, client_id |-> 0,
       event |-> 0,
       lobby_data |-> [x \in 1..4 |-> [guild_card |-> IF x = k THEN g ELSE 0]],
       players_ep3 |-> [x \in 1..4 |-> ""], section_id |-> 0, rare_seed |-> 0])

\* a join-lobby or add-player command with one entry; client_id 12 is past
\* the last slot of a lobby
Server_65_67_68 ==
  \E command \in {101, 103, 104}, client_id \in {0, 12}, g \in GuildCards :
    Receive(TRUE, command, 1,
      [entries |-> <<[name |-> "name", client_id |-> client_id, guild_card |-> g]>>, leader_id |-> 0, client_id |-> 0, event |-> 0,
       lobby_number |-> 0])

Server_66_69 ==
  \E command \in {102, 105}, client_id \in {0, 12} :
    Receive(TRUE, command, 0, [size |-> "exact", leader_id |-> 0, client_id |-> client_id])

\* a session (license serial 1, or none) to which upstream has given the
\* guild card number 2
InitLobby ==
  /\ \E version \in GameVersions, license \in {0, 1} :
       session = NewSession(version, license, 2, TRUE, DefaultClient)
  /\ last = NoCommand
  /\ server = NoServer

NextLobby ==
  \/ Server_64
  \/ Server_65_67_68
  \/ Server_66_69

SpecLobby == InitLobby /\ [][NextLobby]_vars

(***************************************************************************)
(* Properties of identity rewriting (SpecIdentity, SpecLobby)               *)
(***************************************************************************)
\* a linked session whose remote number is assigned and is not its serial
Linked(s) ==
  /\ s.license # 0
  /\ s.remote_guild_card_number # 0
  /\ s.remote_guild_card_number # s.license

\* the values of the guild-card fields of a frame; of a join-game command
\* only the `flag` players it announces are looked at
GuildCardFields(f) ==
  CASE f.command \in {4, 6} -> {f.data.guild_card_number}
    [] f.command = 64 ->
         {f.data.searcher_guild_card_number, f.data.target_guild_card_number}
    [] f.command = 65 ->
         {f.data.searcher_guild_card_number, f.data.result_guild_card_number}
    [] f.command = 129 ->
         {f.data.from_guild_card_number, f.data.to_guild_card_number}
    [] f.command \in {136, 196, 228} ->
         {f.data.entries[x].guild_card_number : x \in 1..Len(f.data.entries)}
    [] f.command = 100 ->
         {f.data.lobby_data[x].guild_card : x \in 1..f.flag}
    [] f.command \in {101, 103, 104} ->
         {f.data.entries[x].guild_card : x \in 1..Len(f.data.entries)}
    [] OTHER -> {}

IdentityCommands == {4, 6, 65, 129, 136, 196, 100, 101, 103, 104, 228}

\* C1: in a linked session no frame of type 04, 06, 41, 81, 88, C4, 64, 65,
\* 67, 68 or E4 that the proxy passes on to the client has a guild-card
\* field equal to the remote guild card number, whatever the variant and
\* whatever the client_id of the entry the field is in.
C1_RemoteNumberHidden ==
  (last.from_server /\ last.command \in IdentityCommands /\ Linked(session)) =>
    \A i \in 1..Len(session.to_client) :
       session.to_client[i].command = last.command =>
         session.remote_guild_card_number \notin GuildCardFields(session.to_client[i])

\* the client-to-server commands that carry the sender's number
CarriesLicenseSerial(l) ==
  /\ ~l.from_server
  /\ \/ l.command \in {64, 129}
     \/ l.command \in {96, 98} /\ l.data.subcommand = 6

\* C2: in a linked session a client-to-server 40, 81 or 6x06 is passed on
\* upstream once, with every guild-card field that held the license serial
\* holding the remote guild card number and every other guild-card field
\* as the client sent it.
C2_LicenseSerialReplaced ==
  (CarriesLicenseSerial(last) /\ Linked(session)) =>
    /\ Len(session.to_server) = 1
    /\ LET sent == session.to_server[1].data
           rewritten(g) == IF g = session.license
                             THEN session.remote_guild_card_number ELSE g
       IN CASE last.command = 64 ->
                 /\ sent.searcher_guild_card_number =
                      rewritten(last.data.searcher_guild_card_number)
                 /\ sent.target_guild_card_number =
                      rewritten(last.data.target_guild_card_number)
            [] last.command = 129 ->
                 /\ sent.from_guild_card_number = rewritten(last.data.from_guild_card_number)
                 /\ sent.to_guild_card_number = rewritten(last.data.to_guild_card_number)
            [] OTHER ->
                 sent.guild_card_number = rewritten(last.data.guild_card_number)

\* a search the client sent has come back from upstream as a search result
SearchCameBack ==
  /\ last.reply
  /\ last.from_server
  /\ last.handler = "process_server_41"
  /\ Linked(session)
  /\ Len(session.to_client) = 1

\* a search result upstream sent has come back from the client as a search
ResultCameBack ==
  /\ last.reply
  /\ ~last.from_server
  /\ last.handler = "process_client_40"
  /\ Linked(session)
  /\ Len(session.to_server) = 1

\* C3 (as stated): the outbound and the inbound rewrite are inverses of
\* each other on every guild card number: a number the client sends comes
\* back to it unchanged, and a number upstream sends comes back to it
\* unchanged.
C3_RewriteBijective ==
  /\ SearchCameBack =>
       /\ session.to_client[1].data.searcher_guild_card_number =
            last.in_reply_to.searcher_guild_card_number
       /\ session.to_client[1].data.result_guild_card_number =
            last.in_reply_to.target_guild_card_number
  /\ ResultCameBack =>
       /\ session.to_server[1].data.searcher_guild_card_number =
            last.in_reply_to.searcher_guild_card_number
       /\ session.to_server[1].data.target_guild_card_number =
            last.in_reply_to.result_guild_card_number

\* what a number g has become after both rewrites, `merged` being the one
\* of the two session numbers the first rewrite removes
RoundTrip(g, merged, into) == IF g = merged THEN into ELSE g

\* C3 (amended): with license serial L and remote number R, a number g the
\* client sends comes back to it unchanged unless g = R, which comes back
\* as L; a number g upstream sends comes back to it unchanged unless g = L,
\* which comes back as R.  The rewrites are inverses of each other on every
\* number other than L and R, and they merge L and R.
C3_RewriteInverseExceptMerged ==
  /\ SearchCameBack =>
       /\ session.to_client[1].data.searcher_guild_card_number =
            RoundTrip(last.in_reply_to.searcher_guild_card_number,
                      session.remote_guild_card_number, session.license)
       /\ session.to_client[1].data.result_guild_card_number =
            RoundTrip(last.in_reply_to.target_guild_card_number,
                      session.remote_guild_card_number, session.license)
  /\ ResultCameBack =>
       /\ session.to_server[1].data.searcher_guild_card_number =
            RoundTrip(last.in_reply_to.searcher_guild_card_number,
                      session.license, session.remote_guild_card_number)
       /\ session.to_server[1].data.target_guild_card_number =
            RoundTrip(last.in_reply_to.result_guild_card_number,
                      session.license, session.remote_guild_card_number)

\* C3 witness: the client searched with its own serial, upstream saw the
\* remote number and the client got its serial back.
C3_Witness ==
  /\ SearchCameBack
  /\ last.in_reply_to.searcher_guild_card_number = session.license
  /\ last.data.searcher_guild_card_number = session.remote_guild_card_number
  /\ session.to_client[1].data.searcher_guild_card_number = session.license
  /\ last.in_reply_to.target_guild_card_number \notin
       {session.license, session.remote_guild_card_number}
  /\ session.to_client[1].data.result_guild_card_number =
       last.in_reply_to.target_guild_card_number

(***************************************************************************)
(* Properties of the patch server's redirect and of the short-command fill *)
(* (SpecReconnect)                                                          *)
(***************************************************************************)
\* the command just handled is a redirect 14 from the patch server
HandledPatchRedirect(l) ==
  /\ l.from_server
  /\ l.command = 20
  /\ l.handler = "process_server_game_19_patch_14"

\* C11: on the patcher a reconnect 14 from upstream is never passed on to
\* the client and the handler returns SUPPRESS; with the client connected
\* both upstream ciphers are cleared and the proxy opens a connection to the
\* address and port of the payload; with the client gone nothing is
\* connected and the upstream ciphers stay.
C11_PatchRedirectFollowedSilently ==
  [][(HandledPatchRedirect(last') /\ Len(last'.data) <= ReconnectMaxSize) =>
       LET d == fill_reconnect_data(session, last'.data)
       IN /\ last'.result = "SUPPRESS"
          /\ session'.to_client = <<>>
          /\ session'.to_server = <<>>
          /\ IF session.client_channel.connected
               THEN /\ session'.server_channel.crypt_in = NoCrypt
                    /\ session'.server_channel.crypt_out = NoCrypt
                    /\ session'.connected_to.sin_family = "AF_INET"
                    /\ session'.connected_to.sin_addr = PayloadAddress(d)
                    /\ session'.connected_to.sin_port = PayloadPort(d)
               ELSE /\ session'.connected_to = session.connected_to
                    /\ session'.server_channel = session.server_channel]_vars

\* C11 witness: the proxy has followed a redirect of the patch server.
C11_Witness ==
  /\ HandledPatchRedirect(last)
  /\ Len(last.data) = ReconnectSize
  /\ last.result = "SUPPRESS"
  /\ session.to_client = <<>>
  /\ session.server_channel.crypt_in = NoCrypt
  /\ session.connected_to.sin_addr = PayloadAddress(last.data)
  /\ session.connected_to.sin_port = PayloadPort(last.data)
  /\ session.connected_to.sin_port # 0

\* the payload a client would parse when it is sent `data` after a frame
\* that left `prev` in its receive buffer
ClientParsedPayload(prev, data) ==
  [i \in 1..ReconnectSize |->
     IF i <= Len(data) THEN data[i]
     ELSE IF i <= PrevServerCommandBytesSize THEN prev[i]
     ELSE 0]

\* C12: a 19 or 14 of n bytes, n below the size of the remembered bytes of
\* the previous server command, is parsed as the n received bytes followed
\* by the remembered bytes at the positions from n on and then zeroes up to
\* the size of the reconnect record: next_destination is the destination
\* of that payload.
C12_ShortReconnectFilled ==
  [][(/\ last'.from_server
      /\ last'.handler = "process_server_game_19_patch_14"
      /\ Len(last'.data) < PrevServerCommandBytesSize) =>
       LET d == ClientParsedPayload(session.prev_server_command_bytes, last'.data)
       IN /\ session'.next_destination.sin_family = "AF_INET"
          /\ session'.next_destination.sin_addr = PayloadAddress(d)
          /\ session'.next_destination.sin_port =
               IF last'.command = 20 /\ session.client_channel.connected
                 THEN PayloadPort(d)
                 ELSE PayloadDestination(d).sin_port
          /\ (last'.command = 25 /\ session.client_channel.is_virtual_connection
                /\ session.client_channel.connected) =>
               /\ Len(session'.to_client) = 1
               /\ PayloadAddress(session'.to_client[1].data) = PayloadAddress(d)]_vars

\* C12 witness: a four-byte 19 has taken its port from the previous command.
C12_Witness ==
  /\ HandledReconnect(last)
  /\ Len(last.data) = 4
  /\ session.prev_server_command_bytes[5] # 0
  /\ session.next_destination.sin_addr = last.data
  /\ session.next_destination.sin_port =
       256 * session.prev_server_command_bytes[5] + session.prev_server_command_bytes[6]

(***************************************************************************)
(* The remote IP CRC patch: a resumed BB session that is sent 22, 19 and   *)
(* 03 in any order (SpecCrcPatch)                                          *)
(***************************************************************************)
\* 22 commands: the fingerprinted one, one of its size with other bytes, and
\* one with its bytes (hash) but padded to a multiple of 8
Bb22Data ==
  [size : {44, 48}, fnv1a64 : {RemoteIpCrcFingerprint, "other"}]

Server_bb_22 ==
  \E data \in Bb22Data : Receive(TRUE, 34, 0, data)

Server_bb_19 ==
  \E data \in ReconnectData : Receive(TRUE, 25, 0, data)

InitCrcPatch ==
  /\ \E login_size \in {151, 152}, virtual \in BOOLEAN, prev \in PrevServerCommandBytes :
       session = NewSession("BB", 1, 2, TRUE,
                   [DefaultClient EXCEPT !.login_size = login_size,
                                         !.is_virtual_connection = virtual,
                                         !.prev_server_command_bytes = prev])
  /\ last = NoCommand
  /\ server = NoServer

NextCrcPatch == Server_bb_22 \/ Server_bb_19 \/ Server_bb_03

SpecCrcPatch == InitCrcPatch /\ [][NextCrcPatch]_vars

\* step one: the flag is set by the fingerprinted 22 alone and stays set
CrcPatchEnabledByFingerprint ==
  /\ session.enable_remote_ip_crc_patch => session'.enable_remote_ip_crc_patch
  /\ (session'.enable_remote_ip_crc_patch /\ ~session.enable_remote_ip_crc_patch) =>
       /\ last'.from_server
       /\ last'.command = 34
       /\ last'.data.size = 44
       /\ last'.data.fnv1a64 = RemoteIpCrcFingerprint
  /\ (/\ last'.from_server /\ last'.command = 34
      /\ last'.data.size = 44
      /\ last'.data.fnv1a64 = RemoteIpCrcFingerprint) =>
       session'.enable_remote_ip_crc_patch

\* step two: remote_ip_crc changes on a 19 or 14 handled with the flag set,
\* to the CRC-32 of the first four bytes of the payload
RemoteIpCrcFromReconnect ==
  /\ session'.remote_ip_crc # session.remote_ip_crc =>
       /\ last'.handler = "process_server_game_19_patch_14"
       /\ session.enable_remote_ip_crc_patch
  /\ (/\ last'.handler = "process_server_game_19_patch_14"
      /\ session.enable_remote_ip_crc_patch) =>
       session'.remote_ip_crc =
         crc32(SubSeq(ClientParsedPayload(session.prev_server_command_bytes,
                                          last'.data), 1, 4))
  /\ (/\ last'.handler = "process_server_game_19_patch_14"
      /\ ~session.enable_remote_ip_crc_patch) =>
       session'.remote_ip_crc = session.remote_ip_crc

\* step three: the login replayed on a 03 of a resumed session
LoginReplayPatched ==
  (/\ last'.from_server
   /\ last'.handler = "process_server_bb_03"
   /\ last'.result = "SUPPRESS") =>
     /\ Len(session'.to_server) = 1
     /\ session'.to_server[1].command = 147
     /\ session'.to_server[1].data.size = session.login_command_bb.size
     /\ IF session.enable_remote_ip_crc_patch /\ session.login_command_bb.size >= 152
          THEN session'.to_server[1].data.dword_94 =
                 [xor |-> <<session.remote_ip_crc, 1309539928, 1248334810>>]
          ELSE session'.to_server[1].data = session.login_command_bb

\* C13: enable_remote_ip_crc_patch becomes true only on a 22 of exactly 0x2C
\* bytes whose hash is the fingerprint and is never cleared; remote_ip_crc
\* changes only on a 19/14 handled while the flag is set, to the CRC-32 of
\* the first four payload bytes; the replayed BB login has the four bytes at
\* 0x94 overwritten with remote_ip_crc XOR the constant only when the flag
\* is set and the login is at least 0x98 bytes, and is replayed as saved
\* otherwise.
C13_CrcPatchThreeSteps ==
  [][/\ CrcPatchEnabledByFingerprint
     /\ RemoteIpCrcFromReconnect
     /\ LoginReplayPatched]_vars

\* C13 witness: all three steps have happened, the login went out patched
\* with the CRC of the address of an earlier 19.
C13_Witness ==
  /\ session.enable_remote_ip_crc_patch
  /\ session.remote_ip_crc = crc32(<<1, 0, 0, 1>>)
  /\ last.handler = "process_server_bb_03"
  /\ last.result = "SUPPRESS"
  /\ session.login_command_bb.size >= 152
  /\ Len(session.to_server) = 1
  /\ session.to_server[1].command = 147
  /\ session.to_server[1].data.dword_94 =
       [xor |-> <<crc32(<<1, 0, 0, 1>>), 1309539928, 1248334810>>]

(***************************************************************************)
(* Message boxes and their close confirmations (SpecMessageBox)            *)
(***************************************************************************)
MessageBoxFlags ==
  {"NO_MESSAGE_BOX_CLOSE_CONFIRMATION",
   "NO_MESSAGE_BOX_CLOSE_CONFIRMATION_AFTER_LOBBY_JOIN"}

Server_1A_D5 ==
  \E command \in {26, 213}, text \in {"", "text"} :
    Receive(TRUE, command, 0, [name |-> "text", text |-> text])

InitMessageBox ==
  /\ \E version \in GameVersions, flags \in SUBSET MessageBoxFlags, connected \in BOOLEAN :
       session = NewSession(version, 1, 2, TRUE,
                   [DefaultClient EXCEPT !.flags = flags, !.connected = connected])
  /\ last = NoCommand
  /\ server = NoServer

NextMessageBox == Server_1A_D5 \/ Server_65_67_68

SpecMessageBox == InitMessageBox /\ [][NextMessageBox]_vars

\* the command just handled is a message box from upstream
HandledMessageBox(l) ==
  /\ l.from_server
  /\ l.command \in {26, 213}

\* the proxy sent exactly one D6, without payload, upstream
OneConfirmationSent(s) ==
  /\ Len(s.to_server) = 1
  /\ s.to_server[1].command = 214
  /\ s.to_server[1].flag = 0
  /\ s.to_server[1].data = [name |-> "empty"]

\* the client was passed the command as upstream sent it
PassedToClient(s, l) ==
  /\ Len(s.to_client) = 1
  /\ s.to_client[1].command = l.command
  /\ s.to_client[1].flag = l.flag
  /\ s.to_client[1].data = l.data

\* the flag is set by a 67 that arrives with the after-lobby-join flag set
\* and is never cleared
ConfirmationFlagMirrored ==
  LET f == session.newserv_client_config_flags
      f1 == session'.newserv_client_config_flags
  IN /\ "NO_MESSAGE_BOX_CLOSE_CONFIRMATION" \in f =>
          "NO_MESSAGE_BOX_CLOSE_CONFIRMATION" \in f1
     /\ ("NO_MESSAGE_BOX_CLOSE_CONFIRMATION" \in f1 \ f) =>
          /\ last'.from_server
          /\ last'.command = 103
          /\ "NO_MESSAGE_BOX_CLOSE_CONFIRMATION_AFTER_LOBBY_JOIN" \in f
     /\ (/\ last'.from_server
         /\ last'.command = 103
         /\ "NO_MESSAGE_BOX_CLOSE_CONFIRMATION_AFTER_LOBBY_JOIN" \in f) =>
          "NO_MESSAGE_BOX_CLOSE_CONFIRMATION" \in f1

\* C14 as stated: whenever the flag is set, a 1A or D5 from upstream makes
\* the proxy send exactly one D6 upstream and pass the message box to the
\* client; with the flag clear no D6 is sent; the flag is set by a 67 under
\* the after-lobby-join flag and never cleared.
C14_ConfirmationWheneverFlagSet ==
  [][/\ HandledMessageBox(last') =>
          /\ last'.result = "FORWARD"
          /\ PassedToClient(session', last')
          /\ IF "NO_MESSAGE_BOX_CLOSE_CONFIRMATION" \in session.newserv_client_config_flags
               THEN OneConfirmationSent(session')
               ELSE session'.to_server = <<>>
     /\ ConfirmationFlagMirrored]_vars

\* C14 amended: the D6 is sent on GC and XB sessions only, and the message
\* box reaches the client when the client channel is connected.
C14_ConfirmationOnV3WhenFlagSet ==
  [][/\ HandledMessageBox(last') =>
          /\ last'.result = "FORWARD"
          /\ IF session.client_channel.connected
               THEN PassedToClient(session', last')
               ELSE session'.to_client = <<>>
          /\ IF /\ session.version \in {"GC", "XB"}
                /\ "NO_MESSAGE_BOX_CLOSE_CONFIRMATION" \in session.newserv_client_config_flags
               THEN OneConfirmationSent(session')
               ELSE session'.to_server = <<>>
     /\ ConfirmationFlagMirrored]_vars

\* C14 witness: after a 67 a message box was confirmed for the client and
\* passed on to it.
C14_Witness ==
  /\ HandledMessageBox(last)
  /\ session.version = "GC"
  /\ Len(session.lobby_players) = 12
  /\ MessageBoxFlags \subseteq session.newserv_client_config_flags
  /\ OneConfirmationSent(session)
  /\ PassedToClient(session, last)

(***************************************************************************)
(* Return to the home server from a lobby (SpecReturnHome)                 *)
(***************************************************************************)
\* the number of players of the lobbies upstream announces
MaxLobbyPlayers == 3

\* a join-lobby command that lists the n players of the lobby, the client
\* itself (under the number upstream knows it by) in slot `own`
Server_67_Lobby ==
  \E n \in 1..MaxLobbyPlayers, own \in 0..(MaxLobbyPlayers - 1) :
    /\ own < n
    /\ Receive(TRUE, 103, n,
         [entries |->
            [x \in 1..n |->
               [name |-> "name",
                client_id |-> x - 1,
                guild_card |-> IF x - 1 = own THEN session.remote_guild_card_number
                               ELSE MaxGuildCard + x]], leader_id |-> 0, client_id |-> own, event |-> 0,
          lobby_number |-> 0])

\* another player leaves the lobby
Server_69_Lobby ==
  \E client_id \in 0..(MaxLobbyPlayers - 1) :
    /\ client_id # session.lobby_client_id
    /\ Receive(TRUE, 105, client_id,
         [size |-> "exact", leader_id |-> 0, client_id |-> client_id])

Client_A0_A1 ==
  \E command \in {160, 161} : Receive(FALSE, command, 0, [name |-> "empty"])

\* the upstream server the session was opened to
UpstreamAddress ==
  [sin_family |-> "AF_INET", sin_addr |-> <<1, 0, 0, 1>>, sin_port |-> htons(9100)]

InitReturnHome ==
  /\ \E version \in GameVersions, license \in {0, 1},
        client \in ReconnectClients \ {[DefaultClient EXCEPT !.connected = FALSE]},
        flags \in SUBSET {"SAVE_ENABLED"} :
       session = [NewSession(version, license, 2, TRUE,
                    [client EXCEPT !.flags = flags])
                  EXCEPT !.next_destination = UpstreamAddress]
  /\ last = NoCommand
  /\ server = NoServer

NextReturnHome == Server_67_Lobby \/ Server_69_Lobby \/ Client_A0_A1

SpecReturnHome == InitReturnHome /\ [][NextReturnHome]_vars

\* the command just handled is an A0 or A1 of the client
HandledChangeShip(l) ==
  /\ ~l.from_server
  /\ l.command \in {160, 161}

\* the client was sent a 04 with the license serial and the saved client
\* config and, as the last frame, a 19 to the login port of its variant
SentHome(s, s1) ==
  LET n == Len(s1.to_client)
  IN /\ n >= 3
     /\ s1.to_client[n - 1].command = 4
     /\ s1.to_client[n - 1].data.guild_card_number = s.license
     /\ s1.to_client[n - 1].data.cfg = [flags |-> s.newserv_client_config_flags]
     /\ s1.to_client[n].command = 25
     /\ Len(s1.to_client[n].data) = ReconnectSize
     /\ PayloadPort(s1.to_client[n].data) =
          name_to_port_config(version_to_port_name(s.version))
     /\ \A i \in 1..(n - 1) : s1.to_client[i].command # 25

\* the command went upstream as the client sent it
RelayedUpstream(s1, l) ==
  /\ l.result = "FORWARD"
  /\ s1.to_client = <<>>
  /\ Len(s1.to_server) = 1
  /\ s1.to_server[1].command = l.command
  /\ s1.to_server[1].flag = l.flag
  /\ s1.to_server[1].data = l.data

\* C15 as stated: on every variant an A0 or A1 of a linked session is
\* suppressed, nothing goes upstream, and the client is sent the 04 and
\* finally the 19 to the login port of its variant; an unlinked session
\* relays the command unchanged.
C15_ReturnHomeOnEveryVariant ==
  [][HandledChangeShip(last') =>
       IF session.license # 0
         THEN /\ last'.result = "SUPPRESS"
              /\ session'.to_server = <<>>
              /\ SentHome(session, session')
         ELSE RelayedUpstream(session', last')]_vars

\* C15 amended: so it is on DC, PC, GC and XB when the address to send the
\* client to is an IPv4 one (if it is not, the handler throws after the 04
\* and no 19 is sent); a BB session relays A0 and A1 like an unlinked one.
C15_ReturnHomeOnDcPcV3 ==
  [][HandledChangeShip(last') =>
       IF session.license # 0 /\ session.version \in {"DC", "PC", "GC", "XB"}
         THEN /\ session'.to_server = <<>>
              /\ IF return_home_address(session).sin_family = "AF_INET"
                   THEN /\ last'.result = "SUPPRESS"
                        /\ SentHome(session, session')
                        /\ PayloadAddress(session'.to_client[Len(session'.to_client)].data) =
                             return_home_address(session).sin_addr
                   ELSE /\ last'.result = "THROW"
                        /\ session'.disconnected
                        /\ \A i \in 1..Len(session'.to_client) :
                             session'.to_client[i].command # 25
         ELSE RelayedUpstream(session', last')]_vars

\* C15 witness: a linked GC client has been sent home to the console login
\* port.
C15_Witness ==
  /\ HandledChangeShip(last)
  /\ session.version = "GC"
  /\ session.license # 0
  /\ last.result = "SUPPRESS"
  /\ session.to_server = <<>>
  /\ SentHome(session, session)
  /\ PayloadPort(session.to_client[Len(session.to_client)].data) = 5100

\* the slots of the mirror that hold a player other than the client itself
OtherOccupiedSlots(s) ==
  {x \in 0..(Len(s.lobby_players) - 1) :
     /\ s.lobby_players[x + 1].guild_card_number # 0
     /\ x # s.lobby_client_id}

\* the 69 frames among the frames sent to the client
LeaveFrames(s) == SelectSeq(s.to_client, LAMBDA f : f.command = 105)

\* C16: on return-to-home the client is sent as many 69 frames as there are
\* occupied slots of the mirror other than its own, each naming a distinct
\* one of those slots as the leaving id and the client's own slot as leader.
C16_OneLeavePerOtherPlayer ==
  [][(/\ HandledChangeShip(last')
      /\ last'.handler = "process_client_dc_pc_v3_A0_A1"
      /\ session.license # 0) =>
       LET leaves == LeaveFrames(session')
       IN /\ Len(leaves) = Cardinality(OtherOccupiedSlots(session))
          /\ {leaves[i].data.client_id : i \in 1..Len(leaves)} = OtherOccupiedSlots(session)
          /\ \A i \in 1..Len(leaves) :
               leaves[i].data.leader_id = session.lobby_client_id]_vars

(***************************************************************************)
(* Item injection (SpecItemDrop)                                            *)
(***************************************************************************)
\* drop requests of enemies (6x60, in its DC and its longer PC/V3 form) and
\* of boxes (6xA2), of the right size and not
DropRequests ==
  [size : {"short", "exact", "long", "over"}, x : {0},
   area : {1}, z : {0}, request_id : {1, 2}, subcommand : {96}]
    \cup [size : {"exact", "long"}, x : {0},
          area : {1}, z : {0}, request_id : {1, 2}, subcommand : {162}]

\* other subcommands: none at all, a 6x05, and a GC map command
OtherSubcommands ==
  {[size |-> "short", subcommand |-> -1],
   [size |-> "exact", subcommand |-> 5]}
    \cup [size : {"long"}, subcommand : {182}, dword2 : {65}, compressed : {"valid", "corrupt"},
          dword3 : {1}]

Server_6x_DropRequest ==
  \E command \in {96, 98}, data \in DropRequests : Receive(TRUE, command, 0, data)

Server_6x_Other ==
  \E data \in OtherSubcommands : Receive(TRUE, 96, 0, data)

\* next_drop_item is armed (by a chat command) or not; a BB session cannot
\* arm it
InitItemDrop ==
  /\ \E version \in GameVersions, item \in 0..MaxByte, connected \in BOOLEAN,
        save_files \in BOOLEAN :
       /\ version = "BB" => item = 0
       /\ session = [NewSession(version, 1, 2, TRUE,
                       [DefaultClient EXCEPT !.connected = connected])
                     EXCEPT !.next_drop_item.data1d0 = item,
                            !.save_files = save_files]
  /\ last = NoCommand
  /\ server = NoServer

NextItemDrop == Server_6x_DropRequest \/ Server_6x_Other

SpecItemDrop == InitItemDrop /\ [][NextItemDrop]_vars

\* the command just handled is a well-formed drop request from upstream
HandledDropRequest(l) ==
  /\ l.from_server
  /\ l.handler = "process_server_60_62_6C_6D_C9_CB"
  /\ \/ l.data.subcommand = 96 /\ l.data.size \in {"exact", "long"}
     \/ l.data.subcommand = 162 /\ l.data.size = "exact"

\* frame f is a drop of `item` under `id` in answer to request l
IsInjectedDrop(f, item, id, l) ==
  /\ f.command = 96
  /\ f.data.subcommand = 95
  /\ f.data.item = [item EXCEPT !.id = id]
  /\ f.data.request_id = l.data.request_id
  /\ f.data.area = l.data.area
  /\ f.data.from_enemy = (l.data.subcommand = 96)

Client_6x_Damage ==
  \E command \in {96, 98}, subcommand \in {47, 76, 72} :
    Receive(FALSE, command, 0, [size |-> "exact", subcommand |-> subcommand])

\* switch subcommands of the client; 65535 is 0xFFFF
Client_6x05 ==
  \E enabled \in BOOLEAN, switch_id \in {1, 2, 65535}, size \in {"exact", "short"} :
    Receive(FALSE, 96, 0,
      [size |-> size, subcommand |-> 5, enabled |-> enabled, switch_id |-> switch_id])

InitCheats ==
  /\ \E version \in GameVersions, infinite_hp \in BOOLEAN, infinite_tp \in BOOLEAN,
        switch_assist \in BOOLEAN :
       session = [NewSession(version, 1, 2, TRUE, DefaultClient)
                  EXCEPT !.infinite_hp = infinite_hp,
                         !.infinite_tp = infinite_tp,
                         !.switch_assist = switch_assist]
  /\ last = NoCommand
  /\ server = NoServer

NextCheats == Client_6x_Damage \/ Client_6x05

SpecCheats == InitCheats /\ [][NextCheats]_vars

RECURSIVE SeqSum(_)
SeqSum(q) == IF q = <<>> THEN 0 ELSE Head(q) + SeqSum(Tail(q))

\* the command just handled is a 6x2F or 6x4C of the client
HandledDamage(l) ==
  /\ ~l.from_server
  /\ l.command \in {96, 98}
  /\ l.data.subcommand \in {47, 76}

\* frame f is a restore-HP chain for the client's own slot whose steps are
\* each 1..255 and add up to 1020
IsRestoreHpChain(f, s) ==
  /\ f.command = 96
  /\ f.data.name = "stats_change"
  /\ f.data.stat = "ADD_HP"
  /\ f.data.client_id = s.lobby_client_id
  /\ \A i \in 1..Len(f.data.amounts) : f.data.amounts[i] \in 1..255
  /\ SeqSum(f.data.amounts) = 1020

\* C18: on every game variant, when infinite_hp is set and the client sends
\* 6x2F or 6x4C, the client is sent one restore-HP chain whose steps are
\* each 1..255 and add up to exactly 1020, and the damage command is still
\* forwarded upstream.
C18_RestoreHpOnEveryVariant ==
  [][(HandledDamage(last') /\ session.infinite_hp) =>
       /\ Len(session'.to_client) = 1
       /\ IsRestoreHpChain(session'.to_client[1], session)
       /\ last'.result = "FORWARD"
       /\ Len(session'.to_server) = 1
       /\ session'.to_server[1].command = last'.command
       /\ session'.to_server[1].data = last'.data]_vars

\* the command just handled is a well-formed 6x05 of the client under
\* switch assist
HandledSwitch(l, s) ==
  /\ ~l.from_server
  /\ l.data.subcommand = 5
  /\ l.data.size = "exact"
  /\ s.switch_assist

\* C19: under switch assist a 6x05 of the client that is enabled and whose
\* switch_id is not 0xFFFF has the remembered enabled 6x05, if there is
\* one, sent once upstream and once to the client ahead of the new command,
\* which is forwarded, and the new command is remembered; with none
\* remembered nothing is replayed.  A 6x05 that is disabled or names switch
\* 0xFFFF is forwarded with neither a replay nor a change of the remembered
\* command.
C19_SwitchAssistReplaysPrevious ==
  [][HandledSwitch(last', session) =>
       LET prev == session.last_switch_enabled_command
       IN /\ last'.result = "FORWARD"
          /\ IF last'.data.enabled /\ last'.data.switch_id # 65535
               THEN /\ session'.last_switch_enabled_command = last'.data
                    /\ IF prev.subcommand = 5
                         THEN /\ Len(session'.to_server) = 2
                              /\ session'.to_server[1].command = 96
                              /\ session'.to_server[1].data = prev
                              /\ session'.to_server[2].data = last'.data
                              /\ Len(session'.to_client) = 1
                              /\ session'.to_client[1].command = 96
                              /\ session'.to_client[1].data = prev
                         ELSE /\ Len(session'.to_server) = 1
                              /\ session'.to_server[1].data = last'.data
                              /\ session'.to_client = <<>>
               ELSE /\ session'.last_switch_enabled_command = prev
                    /\ Len(session'.to_server) = 1
                    /\ session'.to_server[1].data = last'.data
                    /\ session'.to_client = <<>>]_vars

\* C19 witness: switch 1 was replayed ahead of switch 2, which is now the
\* remembered command.
C19_Witness ==
  /\ HandledSwitch(last, session)
  /\ Len(session.to_server) = 2
  /\ session.to_server[1].data.switch_id = 1
  /\ session.to_server[2].data.switch_id = 2
  /\ Len(session.to_client) = 1
  /\ session.to_client[1].data.switch_id = 1
  /\ session.last_switch_enabled_command.switch_id = 2

(***************************************************************************)
(* Dispatch and the default relay (SpecDispatch)                            *)
(***************************************************************************)
\* the functions the twelve tables hold
HandlerNames ==
  {"process_default",
   "process_server_dc_pc_v3_patch_02_17", "process_server_bb_03",
   "process_server_dc_pc_v3_04", "process_server_dc_pc_v3_06",
   "process_server_13_A7", "process_server_game_19_patch_14",
   "process_server_v3_1A_D5", "process_server_bb_22", "process_server_41",
   "process_server_44_A6", "process_server_60_62_6C_6D_C9_CB",
   "process_server_64", "process_server_65_67_68", "process_server_66_69",
   "process_server_81", "process_server_88", "process_server_97",
   "process_server_gc_9A", "process_server_B2", "process_server_gc_B8",
   "process_server_C4", "process_server_gc_E4", "process_server_E7",
   "process_client_06", "process_client_40", "process_client_81",
   "process_client_60_62_6C_6D_C9_CB", "process_client_60_62_6C_6D_C9_CB_void",
   "process_client_dc_pc_v3_A0_A1"}

\* every command byte, and a 16-bit command whose low byte is FF
DispatchCommands == 0..255 \cup {511}

\* a command, from either side, that its table leaves to process_default
Default_Command ==
  \E from_server \in BOOLEAN, command \in DispatchCommands :
    /\ get_handler(session.version, from_server, command) = "process_default"
    /\ Receive(from_server, command, 1, [name |-> "bytes", bytes |-> <<command % 256>>])

InitDispatch ==
  /\ \E version \in Versions, connected \in BOOLEAN :
       session = NewSession(version, 1, 2, TRUE,
                   [DefaultClient EXCEPT !.connected = connected])
  /\ last = NoCommand
  /\ server = NoServer

NextDispatch == Default_Command

SpecDispatch == InitDispatch /\ [][NextDispatch]_vars

\* the session apart from the frames the last command made it send
SessionState(s) == [s EXCEPT !.to_client = <<>>, !.to_server = <<>>]

\* C20: for every variant, direction and command get_handler yields exactly
\* one of the handlers; a command left to process_default is relayed to
\* the opposite channel (if that channel is connected) with command, flag
\* and payload as received, nothing is sent back, and the session state
\* does not change.
C20_DefaultRelaysUnchanged ==
  [][/\ \A version \in Versions, from_server \in BOOLEAN :
          get_handler(version, from_server, last'.command) \in HandlerNames
     /\ last'.handler = "process_default" =>
          LET ch == IF last'.from_server THEN session.client_channel
                                         ELSE session.server_channel
              relayed == IF last'.from_server THEN session'.to_client
                                              ELSE session'.to_server
              back == IF last'.from_server THEN session'.to_server
                                           ELSE session'.to_client
          IN /\ last'.result = "FORWARD"
             /\ back = <<>>
             /\ IF ch.connected
                  THEN /\ Len(relayed) = 1
                       /\ relayed[1].command = last'.command
                       /\ relayed[1].flag = last'.flag
                       /\ relayed[1].data = last'.data
                  ELSE relayed = <<>>
             /\ SessionState(session') = SessionState(session)]_vars

\* C20 witness: a 16-bit command without a handler of its own has reached
\* the client as upstream sent it.
C20_Witness ==
  /\ last.from_server
  /\ last.command = 511
  /\ last.handler = "process_default"
  /\ Len(session.to_client) = 1
  /\ session.to_client[1].command = 511
  /\ session.to_client[1].flag = 1
  /\ session.to_client[1].data = last.data
  /\ session.to_server = <<>>

(***************************************************************************)
(* Errors raised by handlers (SpecErrors)                                   *)
(***************************************************************************)
InitErrors ==
  /\ \E version \in Versions, license \in {0, 1}, resumed \in BOOLEAN,
        client \in ReconnectClients \ {[DefaultClient EXCEPT !.connected = FALSE]} :
       session = [NewSession(version, license, 2, resumed, client)
                  EXCEPT !.next_destination = UpstreamAddress]
  /\ last = NoCommand
  /\ server = NoServer

NextErrors == Server_02_17 \/ Server_bb_03 \/ Client_A0_A1

SpecErrors == InitErrors /\ [][NextErrors]_vars

\* the frames the last command made the proxy send to the side opposite to
\* the one the command came from
SentToOppositeSide(s, l) == IF l.from_server THEN s.to_client ELSE s.to_server

\* C21: when the handler of a command raises an error, the command is not
\* forwarded to the opposite side (nothing at all is sent there), the
\* session is disconnected, both of its channels are closed, and the error
\* goes no further than the dispatcher.
C21_HandlerErrorDisconnects ==
  [][last'.result = "THROW" =>
       /\ \A i \in 1..Len(SentToOppositeSide(session', last')) :
            SentToOppositeSide(session', last')[i].command # last'.command
       /\ session'.disconnected
       /\ ~session'.client_channel.connected
       /\ ~session'.server_channel.connected
       /\ ~session'.crashed]_vars

\* C21 witness: a licensed session on an IPv6 socket asked to return home;
\* the handler raised its error after it had written to the client, and
\* the session is disconnected with nothing sent upstream.
C21_Witness ==
  /\ last.handler = "process_client_dc_pc_v3_A0_A1"
  /\ last.result = "THROW"
  /\ session.disconnected
  /\ session.to_server = <<>>
  /\ session.to_client # <<>>

(***************************************************************************)
(* The game server's side: framing of a command (SendCommands.cc)          *)
(***************************************************************************)
\* the variants send_command has a case for
SendCommandVersions == {"GC", "DC", "PC", "PATCH", "BB"}

\* sizeof(header): PSOCommandHeaderDCGC and PSOCommandHeaderPC are 4 bytes,
\* PSOCommandHeaderBB is 8
sizeof_header(version) == IF version = "BB" THEN 8 ELSE 4

\* one past the largest value of the size field of a header
HeaderSizeLimit == 65536

\* The header as it lies in memory once command, flag and size have been
\* assigned to its fields, each narrowed to the width of its field:
\* {command:u8, flag:u8, size:u16} on DC and GC, {size:u16, command:u8,
\* flag:u8} on PC and PATCH, {size:u16, command:u16, flag:u32} on BB.
header_bytes(version, command, flag, size) ==
  LET size16 == size % HeaderSizeLimit
  IN CASE version \in {"GC", "DC"} ->
            <<command % 256, flag % 256, size16 % 256, size16 \div 256>>
       [] version \in {"PC", "PATCH"} ->
            <<size16 % 256, size16 \div 256, command % 256, flag % 256>>
       [] version = "BB" ->
            <<size16 % 256, size16 \div 256,
              command % 256, (command \div 256) % 256,
              flag % 256, (flag \div 256) % 256,
              (flag \div 65536) % 256, (flag \div 16777216) % 256>>

\* the size field of the header a frame starts with
header_size_field(version, bytes) ==
  IF version \in {"GC", "DC"} THEN load_u16l(bytes, 3) ELSE load_u16l(bytes, 1)

\* x & ~mask for a mask of the form 2^k - 1
and_not(x, mask) == x - (x % (mask + 1))

\* std::string::resize: cut, or filled up with '\0'
string_resize(str, n) == [i \in 1..n |-> IF i <= Len(str) THEN str[i] ELSE 0]

\* The rounding of the other cases used for BB as well.
frame_alignment_mask_always_3(version) == 3

\* the mask the case of the variant rounds send_data.size() with
frame_alignment_mask(version) == IF version = "BB" THEN 7 ELSE 3

\* the value assigned to header.size
send_data_size(version, size) == sizeof_header(version) + size

\* send_command(bev, version, crypt, command, flag, data, size): the string
\* send_data and the cipher it is encrypted with before it is added to the
\* output buffer; an exception for a variant without a case.
send_command(version, crypt, command, flag, data, size) ==
  IF version \notin SendCommandVersions
    THEN [crypt |-> NoCrypt, bytes |-> <<>>, thrown |-> TRUE]
    ELSE LET header == header_bytes(version, command, flag, send_data_size(version, size))
             appended == header \o SubSeq(data, 1, size)
             send_data ==
               IF size # 0
                 THEN string_resize(appended,
                        and_not(Len(appended) + frame_alignment_mask(version),
                                frame_alignment_mask(version)))
                 ELSE header
         IN [crypt |-> crypt, bytes |-> send_data, thrown |-> FALSE]

(***************************************************************************)
(* Framing (SpecSendCommand)                                                *)
(***************************************************************************)
\* payloads of 0..MaxPayload bytes
MaxPayload == 9

\* a payload of n bytes, none of them zero
Payload(n) == [i \in 1..n |-> ((i - 1) % 255) + 1]

\* payload sizes around the largest the size field can hold
LargePayloadSizes == {HeaderSizeLimit - 9, HeaderSizeLimit - 8, HeaderSizeLimit - 4}

NoSession == [disconnected |-> TRUE]

\* no frame has been built yet
NoFrame == [crypt |-> NoCrypt, bytes |-> <<>>, thrown |-> FALSE, built |-> FALSE]

\* one call of send_command with the arguments the state holds
SendCommand ==
  /\ ~server.frame.built
  /\ server' = [server EXCEPT !.frame =
                  [built |-> TRUE] @@
                  send_command(last.version, server.crypt, last.command, last.flag,
                               Payload(server.size), server.size)]
  /\ UNCHANGED <<session, last>>

InitSendCommand ==
  /\ session = NoSession
  /\ \E version \in Versions, crypt \in {NoCrypt, PSOV2Encryption(MaxKey)},
        command \in {96, 491}, flag \in {0, 1},
        size \in (0..MaxPayload) \cup LargePayloadSizes :
       /\ last = [command |-> command, flag |-> flag, version |-> version]
       /\ server = [crypt |-> crypt, size |-> size, frame |-> NoFrame]

NextSendCommand == SendCommand

SpecSendCommand == InitSendCommand /\ [][NextSendCommand]_vars

\* C22: the size field of every frame send_command builds is the length of
\* the header plus the length of the payload before padding, whatever the
\* payload length.
C22_SizeFieldIsHeaderPlusPayload ==
  [][server'.frame.built /\ ~server'.frame.thrown =>
       header_size_field(last'.version, server'.frame.bytes)
         = sizeof_header(last'.version) + server'.size]_vars

\* C23: a frame send_command builds is a multiple of 4 bytes long (of 8 on
\* BB) for every payload length, 0 included; it is the header, then the
\* payload bytes as they were passed, then zero bytes only.
C23_FramePaddedWithZeroes ==
  [][server'.frame.built /\ ~server'.frame.thrown =>
       LET bytes == server'.frame.bytes
           hl == sizeof_header(last'.version)
           size == server'.size
       IN /\ Len(bytes) % (IF last'.version = "BB" THEN 8 ELSE 4) = 0
          /\ Len(bytes) >= hl + size
          /\ SubSeq(bytes, hl + 1, hl + size) = Payload(size)
          /\ \A i \in (hl + size + 1)..Len(bytes) : bytes[i] = 0]_vars

\* C23 witness: a BB frame whose payload of 9 bytes was followed by 7 zero
\* bytes, and a frame without payload that is its header alone.
C23_Witness ==
  /\ server.frame.built
  /\ ~server.frame.thrown
  /\ \/ /\ last.version = "BB"
        /\ server.size = 9
        /\ Len(server.frame.bytes) = 24
        /\ server.frame.bytes[17] = 9
        /\ server.frame.bytes[18] = 0
     \/ /\ last.version = "DC"
        /\ server.size = 0
        /\ Len(server.frame.bytes) = 4

(***************************************************************************)
(* The game server's side: clients                                          *)
(***************************************************************************)
\* ciphers of the game server
PSOPCEncryption(key) == [type |-> "PC", key |-> key]

PSOGCEncryption(key) == [type |-> "GC", key |-> key]

PSOBBEncryption(key_file, key) == [type |-> "BB", key |-> key, key_file |-> key_file]

\* s->default_key_file
default_key_file == "default.nsk"

\* Client::Client(bev, version, server_behavior): no license, no ciphers.
\* bev is whether the client still has its connection handle; output is
\* what the operation at hand has added to the handle's output buffer.
NewClient(bev, version) ==
  [crypt_out |-> NoCrypt, name |-> "", serial_number |-> 0, version |-> version,
   crypt_in |-> NoCrypt, lobby_client_id |-> 0, flags |-> {}, bev |-> bev,
   output |-> <<>>]

\* the command and flag fields of the header send_command fills, each
\* narrowed to the width of its field
header_command(version, command) ==
  IF version = "BB" THEN command % 65536 ELSE command % 256

header_flag(version, flag) == IF version = "BB" THEN flag ELSE flag % 256

\* send_command(c, command, flag, data, size): the frame is held as the
\* header fields, the payload object with its size, and the cipher
\* send_command(bev, ...) encrypts it with.  srv.thrown: an exception is
\* on its way up, nothing further is executed.
send_command_to_client(srv, id, command, flag, data, size) ==
  LET c == srv.clients[id]
  IN IF srv.thrown \/ ~c.bev
       THEN srv
     ELSE IF c.version \notin SendCommandVersions
       THEN [srv EXCEPT !.thrown = TRUE]
     ELSE [srv EXCEPT !.clients[id].output =
             Append(@, [command |-> header_command(c.version, command),
                        flag |-> header_flag(c.version, flag),
                        data |-> data,
                        crypt |-> c.crypt_out,
                        size |-> size])]

\* what a struct passed by reference is sent with
SizeofCmd == "sizeof(cmd)"

install_crypts(srv, id, crypt_out, crypt_in) ==
  IF srv.thrown
    THEN srv
    ELSE [srv EXCEPT !.clients[id].crypt_out = crypt_out,
                     !.clients[id].crypt_in = crypt_in]

\* Ciphers installed before the command is sent.
send_server_init_dc_pc_gc_crypts_first(srv, id, initial_connection, server_key, client_key) ==
  LET c == srv.clients[id]
      command == IF initial_connection \/ c.version = "PC" THEN 23 ELSE 2
      cmd == [server_key |-> server_key,
              client_key |-> client_key,
              copyright |-> IF initial_connection THEN "dc_port_map_copyright"
                            ELSE "dc_lobby_server_copyright",
              after_message |-> "anti_copyright"]
      s1 == CASE c.version \in {"DC", "PC"} ->
                   install_crypts(srv, id, PSOPCEncryption(server_key),
                                  PSOPCEncryption(client_key))
              [] c.version = "GC" ->
                   install_crypts(srv, id, PSOGCEncryption(server_key),
                                  PSOGCEncryption(client_key))
              [] OTHER -> [srv EXCEPT !.thrown = TRUE]
  IN send_command_to_client(s1, id, command, 0, cmd, SizeofCmd)

send_server_init_dc_pc_gc(srv, id, initial_connection, server_key, client_key) ==
  LET c == srv.clients[id]
      command == IF initial_connection \/ c.version = "PC" THEN 23 ELSE 2
      cmd == [server_key |-> server_key,
              client_key |-> client_key,
              copyright |-> IF initial_connection THEN "dc_port_map_copyright"
                            ELSE "dc_lobby_server_copyright",
              after_message |-> "anti_copyright"]
      s1 == send_command_to_client(srv, id, command, 0, cmd, SizeofCmd)
  IN CASE c.version \in {"DC", "PC"} ->
            install_crypts(s1, id, PSOPCEncryption(server_key), PSOPCEncryption(client_key))
       [] c.version = "GC" ->
            install_crypts(s1, id, PSOGCEncryption(server_key), PSOGCEncryption(client_key))
       [] OTHER -> [s1 EXCEPT !.thrown = TRUE]

send_server_init_bb(srv, id, server_key, client_key) ==
  LET cmd == [server_key |-> server_key,
              client_key |-> client_key,
              copyright |-> "bb_game_server_copyright",
              after_message |-> "anti_copyright"]
      s1 == send_command_to_client(srv, id, 3, 0, cmd, SizeofCmd)
  IN install_crypts(s1, id, PSOBBEncryption(default_key_file, server_key),
                    PSOBBEncryption(default_key_file, client_key))

send_server_init_patch(srv, id, server_key, client_key) ==
  LET cmd == [server_key |-> server_key,
              client_key |-> client_key,
              copyright |-> "patch_server_copyright"]
      s1 == send_command_to_client(srv, id, 2, 0, cmd, SizeofCmd)
  IN install_crypts(s1, id, PSOPCEncryption(server_key), PSOPCEncryption(client_key))

\* send_server_init(s, c, initial_connection); the keys are the random
\* values the callee draws
send_server_init(srv, id, initial_connection, server_key, client_key) ==
  LET c == srv.clients[id]
  IN CASE c.version \in {"DC", "PC", "GC"} ->
            send_server_init_dc_pc_gc(srv, id, initial_connection, server_key, client_key)
       [] c.version = "PATCH" -> send_server_init_patch(srv, id, server_key, client_key)
       [] c.version = "BB" -> send_server_init_bb(srv, id, server_key, client_key)
       [] OTHER -> [srv EXCEPT !.thrown = TRUE]

send_reconnect(srv, id, address, port) ==
  send_command_to_client(srv, id, 25, 0,
    [port |-> port, address |-> address, unused |-> 0], SizeofCmd)

\* the server as an operation finds it: no exception pending, the output
\* buffers as the previous operation's data was flushed
BeginOperation(srv) ==
  [srv EXCEPT !.thrown = FALSE,
              !.clients = [id \in DOMAIN srv.clients |->
                             [srv.clients[id] EXCEPT !.output = <<>>]]]

(***************************************************************************)
(* Server-init (SpecSendServerInit)                                         *)
(***************************************************************************)
\* a client that has just connected is sent the server-init
SendServerInit ==
  \E initial_connection \in BOOLEAN, server_key \in Keys, client_key \in Keys :
    /\ last.op = "connect"
    /\ server' = send_server_init(BeginOperation(server), 1, initial_connection,
                                  server_key, client_key)
    /\ last' = [initial_connection |-> initial_connection, op |-> "send_server_init"]
    /\ UNCHANGED session

\* a client that has been sent the server-init is sent further commands
SendReconnect ==
  \E port \in {9100, 9101} :
    /\ last.op # "connect"
    /\ ~server.thrown
    /\ server' = send_reconnect(BeginOperation(server), 1, <<10, 0, 0, 1>>, port)
    /\ last' = [initial_connection |-> FALSE, op |-> "send_reconnect"]
    /\ UNCHANGED session

\* the client's connection handle goes away
ClientLosesConnection ==
  /\ server.clients[1].bev
  /\ server' = [BeginOperation(server) EXCEPT !.clients[1].bev = FALSE]
  /\ last' = [last EXCEPT !.op = IF @ = "connect" THEN @ ELSE "lose_connection"]
  /\ UNCHANGED session

InitSendServerInit ==
  /\ session = NoSession
  /\ last = [initial_connection |-> FALSE, op |-> "connect"]
  /\ \E version \in Versions :
       server = [clients |-> <<NewClient(TRUE, version)>>, thrown |-> FALSE]

NextSendServerInit == SendServerInit \/ SendReconnect \/ ClientLosesConnection

SpecSendServerInit == InitSendServerInit /\ [][NextSendServerInit]_vars

\* the cipher class send_server_init installs for a variant
ServerInitCipher(version, key) ==
  CASE version \in {"DC", "PC", "PATCH"} -> PSOPCEncryption(key)
    [] version = "GC" -> PSOGCEncryption(key)
    [] version = "BB" -> PSOBBEncryption(default_key_file, key)

\* C24: send_server_init sends the server-init frame unencrypted and has
\* then installed crypt_out keyed by the server_key and crypt_in keyed by
\* the client_key of that frame; every frame sent afterwards is encrypted
\* with that crypt_out.
C24_ServerInitThenCiphers ==
  [][LET c == server'.clients[1]
     IN /\ (last'.op = "send_server_init" /\ ~server'.thrown /\ c.bev) =>
             /\ Len(c.output) = 1
             /\ c.output[1].command \in {2, 3, 23}
             /\ c.output[1].crypt = NoCrypt
             /\ c.crypt_out = ServerInitCipher(c.version, c.output[1].data.server_key)
             /\ c.crypt_in = ServerInitCipher(c.version, c.output[1].data.client_key)
        /\ last'.op = "send_reconnect" =>
             /\ c.crypt_out = server.clients[1].crypt_out
             /\ c.crypt_in = server.clients[1].crypt_in
             /\ \A i \in 1..Len(c.output) :
                  /\ c.output[i].crypt = c.crypt_out
                  /\ c.output[i].crypt # NoCrypt]_vars

\* C24 witness: a GC client was sent 02 in the clear and now holds the two
\* ciphers keyed as the frame says, with different keys.
C24_Witness ==
  /\ last.op = "send_server_init"
  /\ server.clients[1].version = "GC"
  /\ Len(server.clients[1].output) = 1
  /\ server.clients[1].output[1].command = 2
  /\ server.clients[1].output[1].crypt = NoCrypt
  /\ server.clients[1].output[1].data.server_key = 1
  /\ server.clients[1].output[1].data.client_key = MaxKey
  /\ server.clients[1].crypt_out = PSOGCEncryption(1)
  /\ server.clients[1].crypt_in = PSOGCEncryption(MaxKey)

(***************************************************************************)
(* The game server's side: lobbies and games                                *)
(***************************************************************************)
\* no client: the null pointer of a slot of Lobby::clients, or the absent
\* joining_client argument
NoClient == 0

\* the bits of Client::flags send_join_lobby reads
NO_MESSAGE_BOX_CLOSE_CONFIRMATION == "NO_MESSAGE_BOX_CLOSE_CONFIRMATION"

NO_MESSAGE_BOX_CLOSE_CONFIRMATION_AFTER_LOBBY_JOIN ==
  "NO_MESSAGE_BOX_CLOSE_CONFIRMATION_AFTER_LOBBY_JOIN"

\* an element of cmd.lobby_data that was never assigned
DefaultLobbyData == [name |-> "default-constructed"]

\* slots of Lobby::clients, counted from 0; slot x is l.clients[x + 1]
lobby_client(l, x) == l.clients[x + 1]

send_update_client_config(srv, id) ==
  LET c == srv.clients[id]
  IN send_command_to_client(srv, id, 4, 0,
       [player_tag |-> PlayerTagSet,
        guild_card_number |-> c.serial_number,
        cfg |-> [flags |-> c.flags]], SizeofCmd)

\* The entry of slot x as it is filled for recipient id.
join_game_lobby_data(srv, id, x) ==
  LET l == srv.lobby
      c == srv.clients[id]
  IN IF lobby_client(l, x) # NoClient
       THEN [player_tag |-> PlayerTagSet,
             name |-> srv.clients[lobby_client(l, x)].name,
             client_id |-> c.lobby_client_id,
             guild_card |-> srv.clients[lobby_client(l, x)].serial_number,
             ip_address |-> 2130706433]
       ELSE DefaultLobbyData

\* cmd.lobby_data as the loop over the four slots of a game leaves it
send_join_game_t(srv, id) ==
  LET l == srv.lobby
      c == srv.clients[id]
      player_count == Cardinality({x \in 0..3 : lobby_client(l, x) # NoClient})
      cmd == [leader_id |-> l.leader_id,
              client_id |-> c.lobby_client_id,
              event |-> l.event,
              lobby_data |-> [x \in 0..3 |-> join_game_lobby_data(srv, id, x)],
              section_id |-> l.section_id,
              rare_seed |-> l.rare_seed,
              variations |-> l.variations,
              disable_udp |-> 1,
              difficulty |-> l.difficulty,
              battle_mode |-> IF l.mode = 1 THEN 1 ELSE 0,
              challenge_mode |-> IF l.mode = 2 THEN 1 ELSE 0,
              episode |-> l.episode,
              unused2 |-> 1,
              solo_mode |-> IF l.mode = 3 THEN 1 ELSE 0,
              unused3 |-> 0]
      data_size == IF l.episode_3 THEN "sizeof(cmd)"
                   ELSE "sizeof(cmd) - sizeof(cmd.players_ep3)"
  IN send_command_to_client(srv, id, 100, player_count, cmd, data_size)

\* lobby_type of send_join_lobby_t
join_lobby_type(l, c) ==
  LET lobby_type == IF l.type > 14 THEN l.block - 1 ELSE l.type
  IN IF c.version = "GC"
       THEN IF "EPISODE_3_GAMES" \in c.flags
              THEN IF l.type > 20 /\ l.type < 233 THEN l.block - 1 ELSE lobby_type
              ELSE IF l.type > 17 /\ l.type # 103 /\ l.type # 212 /\ l.type < 252
                     THEN l.block - 1 ELSE lobby_type
       ELSE IF lobby_type > 14 THEN l.block - 1 ELSE lobby_type

\* the clients send_join_lobby_t lists, in the order of their entries
RECURSIVE join_lobby_clients(_, _)
join_lobby_clients(l, x) ==
  IF x >= Len(l.clients)
    THEN <<>>
    ELSE (IF lobby_client(l, x) # NoClient THEN <<lobby_client(l, x)>> ELSE <<>>)
           \o join_lobby_clients(l, x + 1)

join_lobby_entry_for(srv, id, lc) ==
  [lobby_data |-> [player_tag |-> PlayerTagSet,
                   name |-> srv.clients[lc].name,
                   client_id |-> srv.clients[lc].lobby_client_id,
                   guild_card |-> srv.clients[lc].serial_number,
                   ip_address |-> 2130706433],
   inventory |-> <<"inventory", lc>>,
   disp |-> <<"disp", lc, srv.clients[id].version = "PC">>]

\* A flag that counts the occupied slots whoever is listed.
send_join_lobby_t_flag_counts_lobby(srv, id, joining_client) ==
  LET l == srv.lobby
      c == srv.clients[id]
      lobby_clients == IF joining_client # NoClient THEN <<joining_client>>
                       ELSE join_lobby_clients(l, 0)
      cmd == [entries |-> [i \in 1..Len(lobby_clients) |->
                             join_lobby_entry_for(srv, id, lobby_clients[i])],
              leader_id |-> l.leader_id,
              client_id |-> c.lobby_client_id,
              event |-> l.event,
              lobby_number |-> join_lobby_type(l, c),
              unused |-> 0,
              disable_udp |-> 1,
              block_number |-> l.block]
  IN IF l.is_game /\ joining_client = NoClient
       THEN [srv EXCEPT !.thrown = TRUE]
       ELSE send_command_to_client(srv, id,
              IF l.is_game THEN 101 ELSE IF joining_client # NoClient THEN 104 ELSE 103,
              Len(join_lobby_clients(l, 0)), cmd, <<"cmd.size", Len(lobby_clients)>>)

send_join_lobby_t(srv, id, joining_client) ==
  LET l == srv.lobby
      c == srv.clients[id]
      lobby_clients == IF joining_client # NoClient THEN <<joining_client>>
                       ELSE join_lobby_clients(l, 0)
      used_entries == Len(lobby_clients)
      cmd == [entries |-> [i \in 1..used_entries |->
                             join_lobby_entry_for(srv, id, lobby_clients[i])],
              leader_id |-> l.leader_id,
              client_id |-> c.lobby_client_id,
              event |-> l.event,
              lobby_number |-> join_lobby_type(l, c),
              unused |-> 0,
              disable_udp |-> 1,
              block_number |-> l.block]
  IN IF l.is_game /\ joining_client = NoClient
       THEN [srv EXCEPT !.thrown = TRUE]
       ELSE send_command_to_client(srv, id,
              IF l.is_game THEN 101 ELSE IF joining_client # NoClient THEN 104 ELSE 103,
              used_entries, cmd, <<"cmd.size", used_entries>>)

send_join_lobby(srv, id) ==
  LET c == srv.clients[id]
      s1 == IF c.version \in {"PC", "GC", "BB"}
              THEN IF srv.lobby.is_game THEN send_join_game_t(srv, id)
                   ELSE send_join_lobby_t(srv, id, NoClient)
              ELSE [srv EXCEPT !.thrown = TRUE]
  IN IF s1.thrown
       THEN s1
     ELSE IF NO_MESSAGE_BOX_CLOSE_CONFIRMATION_AFTER_LOBBY_JOIN \in c.flags
             /\ NO_MESSAGE_BOX_CLOSE_CONFIRMATION \notin c.flags
       THEN send_update_client_config(
              [s1 EXCEPT !.clients[id].flags = @ \cup {NO_MESSAGE_BOX_CLOSE_CONFIRMATION}],
              id)
     ELSE s1

send_player_join_notification(srv, id, joining_client) ==
  IF srv.clients[id].version \in {"PC", "GC", "BB"}
    THEN send_join_lobby_t(srv, id, joining_client)
    ELSE [srv EXCEPT !.thrown = TRUE]

(***************************************************************************)
(* Joining (SpecJoin)                                                       *)
(***************************************************************************)
\* the number of slots of Lobby::clients in the model (a game uses four)
ServerLobbySlots == 4

\* client x + 1 is the one that sits in slot x when that slot is occupied
LobbyMember(x, version, bev, flags) ==
  [NewClient(bev, version) EXCEPT !.lobby_client_id = x,
                                  !.serial_number = 100 + x,
                                  !.name = <<"player", x>>,
                                  !.flags = flags,
                                  !.crypt_out = ServerInitCipher(
                                    IF version = "XB" THEN "GC" ELSE version, 1),
                                  !.crypt_in = ServerInitCipher(
                                    IF version = "XB" THEN "GC" ELSE version, MaxKey)]

NewLobby(is_game, occupied, leader_id) ==
  [type |-> 1,
   leader_id |-> leader_id,
   event |-> 0,
   section_id |-> 0,
   rare_seed |-> 0, clients |-> [i \in 1..ServerLobbySlots |-> IF i - 1 \in occupied THEN i ELSE NoClient], variations |-> <<"variations">>, difficulty |-> 0,
   mode |-> 0, episode |-> 1, episode_3 |-> FALSE, block |-> 1, is_game |-> is_game]

InitJoin ==
  /\ session = NoSession
  /\ last = [id |-> NoClient, op |-> "none", joining_client |-> NoClient]
  /\ \E is_game \in BOOLEAN, occupied \in SUBSET (0..(ServerLobbySlots - 1)),
        version \in Versions, flags \in SUBSET {NO_MESSAGE_BOX_CLOSE_CONFIRMATION_AFTER_LOBBY_JOIN} :
       /\ occupied # {}
       /\ \E leader_id \in occupied :
            server = [clients |-> [i \in 1..ServerLobbySlots |->
                                     LobbyMember(i - 1, version, TRUE, flags)],
                      thrown |-> FALSE,
                      lobby |-> NewLobby(is_game, occupied, leader_id)]

\* the slots of the lobby that hold a client
OccupiedSlots(l) == {x \in 0..(Len(l.clients) - 1) : lobby_client(l, x) # NoClient}

\* a member of the lobby is sent the lobby or game it has joined
SendJoinLobby ==
  \E x \in OccupiedSlots(server.lobby) :
    /\ server' = send_join_lobby(BeginOperation(server), lobby_client(server.lobby, x))
    /\ last' = [id |-> lobby_client(server.lobby, x), op |-> "send_join_lobby",
                joining_client |-> NoClient]
    /\ UNCHANGED session

\* a member is told of another member that has joined
SendPlayerJoinNotification ==
  \E x \in OccupiedSlots(server.lobby), y \in OccupiedSlots(server.lobby) :
    /\ x # y
    /\ server' = send_player_join_notification(BeginOperation(server),
                   lobby_client(server.lobby, x), lobby_client(server.lobby, y))
    /\ last' = [id |-> lobby_client(server.lobby, x),
                op |-> "send_player_join_notification",
                joining_client |-> lobby_client(server.lobby, y)]
    /\ UNCHANGED session

\* send_join_lobby_t called for the full list, whatever the lobby is
SendJoinLobbyT ==
  \E x \in OccupiedSlots(server.lobby) :
    /\ server' = send_join_lobby_t(BeginOperation(server),
                   lobby_client(server.lobby, x), NoClient)
    /\ last' = [id |-> lobby_client(server.lobby, x), op |-> "send_join_lobby_t",
                joining_client |-> NoClient]
    /\ UNCHANGED session

NextJoin == SendJoinLobby \/ SendPlayerJoinNotification \/ SendJoinLobbyT

SpecJoin == InitJoin /\ [][NextJoin]_vars

\* the frames the operation at hand has sent to client id
Output(srv, id) == srv.clients[id].output

\* C25: in the 64 frame sent to a client that joined a game, the entry of
\* every occupied slot x carries the serial number, the name and the
\* client id of the member in slot x, every other entry is left as it was
\* constructed, the flag is the number of occupied slots, client_id is the
\* recipient's slot and leader_id the game's leader.
C25_JoinGameEntriesDescribeMembers ==
  [][\A id \in DOMAIN server'.clients :
       \A i \in 1..Len(Output(server', id)) :
         Output(server', id)[i].command = 100 =>
           LET frame == Output(server', id)[i]
               l == server'.lobby
           IN /\ \A x \in 0..3 :
                   IF x \in OccupiedSlots(l)
                     THEN /\ frame.data.lobby_data[x] # DefaultLobbyData
                          /\ frame.data.lobby_data[x].guild_card
                               = server'.clients[lobby_client(l, x)].serial_number
                          /\ frame.data.lobby_data[x].name
                               = server'.clients[lobby_client(l, x)].name
                          /\ frame.data.lobby_data[x].client_id
                               = server'.clients[lobby_client(l, x)].lobby_client_id
                     ELSE frame.data.lobby_data[x] = DefaultLobbyData
              /\ frame.flag = Cardinality(OccupiedSlots(l) \cap (0..3))
              /\ frame.data.client_id = server'.clients[id].lobby_client_id
              /\ frame.data.leader_id = l.leader_id]_vars

\* C26: in every 65, 67 or 68 frame the flag is the number of entries of
\* the payload: one entry, that of the joining client, in a 65 (game) or a
\* 68 (lobby), and one entry per occupied slot in a 67; asking
\* send_join_lobby_t for the full list of a game raises an error and sends
\* nothing.
C26_FlagCountsEntries ==
  [][/\ \A id \in DOMAIN server'.clients :
          \A i \in 1..Len(Output(server', id)) :
            LET frame == Output(server', id)[i]
                l == server'.lobby
            IN frame.command \in {101, 103, 104} =>
                 /\ frame.flag = Len(frame.data.entries)
                 /\ frame.command = 103 =>
                      /\ ~l.is_game
                      /\ last'.joining_client = NoClient
                      /\ Len(frame.data.entries) = Cardinality(OccupiedSlots(l))
                      /\ {frame.data.entries[k].lobby_data.client_id :
                            k \in 1..Len(frame.data.entries)} = OccupiedSlots(l)
                 /\ frame.command \in {101, 104} =>
                      /\ l.is_game <=> frame.command = 101
                      /\ last'.joining_client # NoClient
                      /\ Len(frame.data.entries) = 1
                      /\ frame.data.entries[1].lobby_data.client_id
                           = server'.clients[last'.joining_client].lobby_client_id
                      /\ frame.data.entries[1].lobby_data.guild_card
                           = server'.clients[last'.joining_client].serial_number
     /\ (last'.op = "send_join_lobby_t" /\ server'.lobby.is_game) =>
          /\ server'.thrown
          /\ \A id \in DOMAIN server'.clients : Output(server', id) = <<>>]_vars

\* C26 witness: a member of a lobby of three was sent a 67 with flag 3 and
\* three entries.
C26_Witness ==
  /\ last.op = "send_join_lobby"
  /\ ~server.lobby.is_game
  /\ Cardinality(OccupiedSlots(server.lobby)) = 3
  /\ Len(Output(server, last.id)) = 1
  /\ Output(server, last.id)[1].command = 103
  /\ Output(server, last.id)[1].flag = 3
  /\ Len(Output(server, last.id)[1].data.entries) = 3

(***************************************************************************)
(* The game server's side: quest files                                      *)
(***************************************************************************)
\* the size of S_WriteFile_13_A7::data, 0x400
QuestChunkSize == 1024

\* contents is held as its size; the bytes of a chunk are named by where
\* in contents they were copied from
send_quest_open_file_t(srv, id, filename, file_size, is_download_quest, is_ep3_quest) ==
  send_command_to_client(srv, id, IF is_download_quest THEN 166 ELSE 68, 0,
    [name |-> filename,
     filename |-> filename,
     file_size |-> file_size,
     flags |-> 2 + (IF is_ep3_quest THEN 1 ELSE 0)], SizeofCmd)

\* A chunk sent without its index.
send_quest_file_chunk_unnumbered(srv, id, filename, chunk_index, data, size, is_download_quest) ==
  IF size > QuestChunkSize
    THEN [srv EXCEPT !.thrown = TRUE]
    ELSE send_command_to_client(srv, id, IF is_download_quest THEN 167 ELSE 19, 0,
           [data |-> [copied_from |-> data, copied |-> size, zeroed |-> QuestChunkSize - size],
            filename |-> filename,
            data_size |-> size], SizeofCmd)

send_quest_file_chunk(srv, id, filename, chunk_index, data, size, is_download_quest) ==
  IF size > QuestChunkSize
    THEN [srv EXCEPT !.thrown = TRUE]
    ELSE send_command_to_client(srv, id, IF is_download_quest THEN 167 ELSE 19, chunk_index,
           [data |-> [copied_from |-> data, copied |-> size, zeroed |-> QuestChunkSize - size],
            filename |-> filename,
            data_size |-> size], SizeofCmd)

\* the values offset takes in the loop of send_quest_file
quest_file_offsets(contents_size) ==
  {offset \in 0..(contents_size - 1) : offset % QuestChunkSize = 0}

\* what the iteration of the loop at offset sends: the frames
\* send_quest_file_chunk adds to the output of the client
quest_file_iteration(srv, id, basename, contents_size, offset, is_download_quest) ==
  LET chunk_bytes == IF contents_size - offset > QuestChunkSize
                       THEN QuestChunkSize ELSE contents_size - offset
  IN send_quest_file_chunk(BeginOperation(srv), id, basename, offset \div QuestChunkSize,
                           offset, chunk_bytes, is_download_quest).clients[id].output

\* The loop runs once per offset, in increasing order; an iteration does
\* not read what the earlier ones did, and for a client that has its
\* handle each adds one frame.
send_quest_file(srv, id, basename, contents_size, is_download_quest, is_ep3_quest) ==
  LET c == srv.clients[id]
      s1 == send_quest_open_file_t(srv, id, basename, contents_size,
                                   is_download_quest, is_ep3_quest)
      iterations == Cardinality(quest_file_offsets(contents_size))
  IN IF c.version \in {"PC", "GC", "BB"}
       THEN IF s1.thrown \/ ~c.bev
              THEN s1
              ELSE [s1 EXCEPT !.clients[id].output =
                      @ \o [k \in 1..iterations |->
                              quest_file_iteration(s1, id, basename, contents_size,
                                (k - 1) * QuestChunkSize, is_download_quest)[1]]]
       ELSE [srv EXCEPT !.thrown = TRUE]

(***************************************************************************)
(* Quest files (SpecQuestFile)                                              *)
(***************************************************************************)
\* contents of up to MaxQuestChunks full chunks
MaxQuestChunks == 3

\* one chunk more than the flag of a 4-byte header can number
LargeQuestSize == 256 * QuestChunkSize + 1

\* sizes at and next to the multiples of the chunk size, and a large one
QuestSizes ==
  {n \in 0..(MaxQuestChunks * QuestChunkSize + 1) :
     n % QuestChunkSize \in {0, 1, QuestChunkSize - 1}} \cup {LargeQuestSize}

InitQuestFile ==
  /\ session = NoSession
  /\ \E version \in Versions, bev \in BOOLEAN, contents_size \in QuestSizes,
        is_download_quest \in BOOLEAN, is_ep3_quest \in BOOLEAN :
       /\ last = [is_download_quest |-> is_download_quest, op |-> "none",
                  is_ep3_quest |-> is_ep3_quest,
                  contents_size |-> contents_size]
       /\ server = [clients |-> <<LobbyMember(0, version, bev, {})>>, thrown |-> FALSE]

\* the quest file the state holds is sent to the client
SendQuestFile ==
  /\ last.op = "none"
  /\ server' = send_quest_file(BeginOperation(server), 1, "quest.bin", last.contents_size,
                               last.is_download_quest, last.is_ep3_quest)
  /\ last' = [last EXCEPT !.op = "send_quest_file"]
  /\ UNCHANGED session

NextQuestFile == SendQuestFile

SpecQuestFile == InitQuestFile /\ [][NextQuestFile]_vars

\* f[lo] + ... + f[hi]
RECURSIVE SumOver(_, _, _)
SumOver(f, lo, hi) ==
  IF lo > hi THEN 0
  ELSE IF lo = hi THEN f[lo]
  ELSE SumOver(f, lo, (lo + hi) \div 2) + SumOver(f, (lo + hi) \div 2 + 1, hi)

\* ceil(n / 1024)
QuestChunkCount(n) == (n + QuestChunkSize - 1) \div QuestChunkSize

\* The frames of one quest file: an open-file frame declaring n bytes, then
\* the write-file frames, each of QuestChunkSize bytes but the last; Flag(i) is the
\* flag the i-th of them (counted from 0) is to carry.
IsQuestFileSequence(frames, n, is_download_quest, Flag(_)) ==
  /\ Len(frames) = 1 + QuestChunkCount(n)
  /\ frames[1].command = (IF is_download_quest THEN 166 ELSE 68)
  /\ frames[1].data.file_size = n
  /\ \A i \in 0..(QuestChunkCount(n) - 1) :
       /\ frames[i + 2].command = (IF is_download_quest THEN 167 ELSE 19)
       /\ frames[i + 2].flag = Flag(i)
       /\ frames[i + 2].data.data_size =
            (IF i < QuestChunkCount(n) - 1 THEN QuestChunkSize ELSE n - i * QuestChunkSize)
       /\ frames[i + 2].data.data.copied_from = i * QuestChunkSize
  /\ SumOver([i \in 1..QuestChunkCount(n) |-> frames[i + 1].data.data_size],
             1, QuestChunkCount(n)) = n

\* what send_quest_file did for a client that has its connection handle
QuestFileSent(Flag(_, _)) ==
  (last'.op = "send_quest_file" /\ server'.clients[1].bev) =>
    LET c == server'.clients[1]
        FlagOf(i) == Flag(c.version, i)
    IN IF c.version \in {"PC", "GC", "BB"}
         THEN /\ ~server'.thrown
              /\ IsQuestFileSequence(c.output, last'.contents_size,
                                     last'.is_download_quest, FlagOf)
         ELSE /\ server'.thrown
              /\ c.output = <<>>

ChunkIndex(version, i) == i

ChunkIndexInHeader(version, i) == IF version = "BB" THEN i ELSE i % 256

\* C27 as stated: send_quest_file sends one open-file frame declaring size n
\* and then ceil(n/1024) write-file frames with flags 0, 1, 2, ... and data
\* sizes 1024 except possibly the last, which sum to n; for unsupported
\* variants it raises an error before sending anything.
C27_ChunksNumberedFromZero == [][QuestFileSent(ChunkIndex)]_vars

\* C27 amended: the same, where the flag of a write-file frame is the chunk
\* index as far as the flag field of the header holds it: the index itself
\* on BB, its low 8 bits on PC and GC.
C27_ChunksNumberedInHeaderWidth == [][QuestFileSent(ChunkIndexInHeader)]_vars

\* C27 witness: 1025 bytes went to a GC client as 44, 13 with flag 0 and
\* 1024 bytes, and 13 with flag 1 and 1 byte.
C27_Witness ==
  /\ last.op = "send_quest_file"
  /\ last.contents_size = QuestChunkSize + 1
  /\ ~last.is_download_quest
  /\ server.clients[1].version = "GC"
  /\ Len(server.clients[1].output) = 3
  /\ server.clients[1].output[1].command = 68
  /\ server.clients[1].output[2].flag = 0
  /\ server.clients[1].output[2].data.data_size = QuestChunkSize
  /\ server.clients[1].output[3].command = 19
  /\ server.clients[1].output[3].flag = 1
  /\ server.clients[1].output[3].data.data_size = 1

(***************************************************************************)
(* The game server's side: the BB stream file                               *)
(***************************************************************************)
\* sizeof(S_StreamFileChunk_BB_02EB::data), 0x6800
StreamChunkSize == 26624

\* The state of the loops of send_stream_file_bb: the server, chunk_cmd's
\* chunk_index, buffer_offset, and how many bytes of the concatenated files
\* have been copied into chunk_cmd.data so far.  The bytes of a chunk are
\* named by first, the place in the concatenation of the byte that lies at
\* data[0], and count, the buffer_offset at the time of sending.
RECURSIVE stream_file_while(_, _, _)
stream_file_while(st, id, file_data_remaining) ==
  IF st.srv.thrown \/ file_data_remaining = 0
    THEN st
    ELSE LET read_size == Min(StreamChunkSize - st.buffer_offset, file_data_remaining)
             buffer_offset == st.buffer_offset + read_size
             copied == st.copied + read_size
         IN stream_file_while(
              IF buffer_offset = StreamChunkSize
                THEN [srv |-> send_command_to_client(st.srv, id, 747, 0,
                                [chunk_index |-> st.chunk_index,
                                 first |-> copied - buffer_offset,
                                 count |-> buffer_offset], SizeofCmd),
                      chunk_index |-> st.chunk_index + 1,
                      copied |-> copied,
                      buffer_offset |-> 0]
                ELSE [st EXCEPT !.buffer_offset = buffer_offset, !.copied = copied],
              id, file_data_remaining - read_size)

\* the body of the loop over the entries of the index, for entry x
stream_file_entry(st, id, index_data, files, x) ==
  IF files[x] # index_data.entries[x].size
    THEN [st EXCEPT !.srv.thrown = TRUE]
    ELSE LET st1 == stream_file_while(st, id, files[x])
         IN IF ~st1.srv.thrown /\ st1.buffer_offset > 0
              THEN [st1 EXCEPT !.srv =
                      send_command_to_client(st1.srv, id, 747, 0,
                        [chunk_index |-> st1.chunk_index,
                         first |-> st1.copied - st1.buffer_offset,
                         count |-> st1.buffer_offset],
                        and_not(st1.buffer_offset + 15, 3))]
              ELSE st1

RECURSIVE stream_file_for(_, _, _, _, _)
stream_file_for(st, id, index_data, files, x) ==
  IF st.srv.thrown \/ x > Len(index_data.entries)
    THEN st
    ELSE stream_file_for(stream_file_entry(st, id, index_data, files, x),
                         id, index_data, files, x + 1)

\* index_data: the index file as its entries and the bytes that follow the
\* last whole entry; files: the sizes of the files of the cache, in the
\* order of the entries
send_stream_file_bb(srv, id, index_data, files) ==
  IF index_data.trailing_bytes # 0
    THEN [srv EXCEPT !.thrown = TRUE]
    ELSE stream_file_for(
           [srv |-> send_command_to_client(srv, id, 491, Len(index_data.entries),
                      index_data, "index_data->size()"),
            chunk_index |-> 0, copied |-> 0, buffer_offset |-> 0],
           id, index_data, files, 1).srv

(***************************************************************************)
(* The stream file (SpecStreamFile)                                         *)
(***************************************************************************)
\* the index has up to MaxStreamFiles entries
MaxStreamFiles == 3

\* file sizes at and next to the chunk size
StreamFileSizes == {0, 1, StreamChunkSize - 1, StreamChunkSize, StreamChunkSize + 1}

\* the sequences of up to n elements of S
SeqUpTo(S, n) == UNION {[1..k -> S] : k \in 0..n}

InitStreamFile ==
  /\ session = NoSession
  /\ \E files \in SeqUpTo(StreamFileSizes, MaxStreamFiles), bev \in BOOLEAN,
        fault \in {"none", "index", "file"} :
       /\ fault = "file" => files # <<>>
       /\ last = [op |-> "none",
                  index_data |->
                    [entries |-> [x \in 1..Len(files) |->
                                    [size |-> IF fault = "file" /\ x = Len(files)
                                                THEN files[x] + 1 ELSE files[x],
                                     filename |-> <<"file", x>>]],
                     trailing_bytes |-> IF fault = "index" THEN 1 ELSE 0],
                  files |-> files]
       /\ server = [clients |-> <<LobbyMember(0, "BB", bev, {})>>, thrown |-> FALSE]

SendStreamFileBB ==
  /\ last.op = "none"
  /\ server' = send_stream_file_bb(BeginOperation(server), 1, last.index_data, last.files)
  /\ last' = [last EXCEPT !.op = "send_stream_file_bb"]
  /\ UNCHANGED session

NextStreamFile == SendStreamFileBB

SpecStreamFile == InitStreamFile /\ [][NextStreamFile]_vars

\* C28: send_stream_file_bb sends one 01EB frame whose flag is the number
\* of entries of the index and then 02EB frames with chunk indices 0, 1,
\* 2, ..., each once, every one but the last carrying 0x6800 bytes of the
\* concatenated files, so that every byte of the concatenation is in
\* exactly one chunk; whatever the number of entries.
C28_EachByteInOneChunk ==
  [][(last'.op = "send_stream_file_bb" /\ ~server'.thrown /\ server'.clients[1].bev) =>
       LET frames == server'.clients[1].output
           total == SumOver(last'.files, 1, Len(last'.files))
           chunks == Len(frames) - 1
       IN /\ Len(frames) >= 1
          /\ frames[1].command = 491
          /\ frames[1].flag = Len(last'.index_data.entries)
          /\ \A k \in 1..chunks :
               /\ frames[k + 1].command = 747
               /\ frames[k + 1].data.chunk_index = k - 1
               /\ frames[k + 1].data.first = (k - 1) * StreamChunkSize
               /\ k < chunks => frames[k + 1].data.count = StreamChunkSize
          /\ SumOver([k \in 1..chunks |-> frames[k + 1].data.count], 1, chunks) = total]_vars

(***************************************************************************)
(* The leader of the mirrored lobby (SpecLeader)                            *)
(***************************************************************************)
\* Upstream keeps a lobby or game of ServerLobbySlots slots in which the
\* proxied client sits in slot `own`, and whose leader is always one of the
\* occupied slots; it tells the client what it tells every member.

\* the guild card number upstream has for the member in slot x
UpstreamGuildCard(srv, x) ==
  IF x = srv.own THEN session.remote_guild_card_number ELSE MaxGuildCard + 1 + x

\* the 64 or 67 the client is sent when it has joined the game or lobby srv
UpstreamJoinFrame(srv) ==
  LET l == srv.lobby
      members == join_lobby_clients(l, 0)
  IN IF l.is_game
       THEN [command |-> 100,
             flag |-> Cardinality(OccupiedSlots(l)),
             data |-> [size |-> "CmdT", leader_id |-> l.leader_id, client_id |-> srv.own,
                       event |-> 0,
                       lobby_data |-> [x \in 1..4 |->
                         [guild_card |-> IF x - 1 \in OccupiedSlots(l)
                                           THEN UpstreamGuildCard(srv, x - 1) ELSE 0]],
                       players_ep3 |-> [x \in 1..4 |-> ""],
                       section_id |-> 0, rare_seed |-> 0]]
       ELSE [command |-> 103,
             flag |-> Len(members),
             data |-> [entries |-> [i \in 1..Len(members) |->
                                      [name |-> "name", client_id |-> members[i] - 1,
                                       guild_card |-> UpstreamGuildCard(srv, members[i] - 1)]],
                       leader_id |-> l.leader_id, client_id |-> srv.own, event |-> 0,
                       lobby_number |-> 0]]

\* the client joins a lobby or a game that has the members `occupied`, the
\* game either first or from the lobby it is in
Upstream_Join ==
  \E is_game \in BOOLEAN, occupied \in SUBSET (0..(ServerLobbySlots - 1)),
     own \in 0..(ServerLobbySlots - 1), leader_id \in 0..(ServerLobbySlots - 1) :
    /\ own \in occupied
    /\ leader_id \in occupied
    /\ is_game => occupied \subseteq 0..3
    /\ server # NoServer => (is_game /\ ~server.lobby.is_game)
    /\ LET srv == [own |-> own, lobby |-> NewLobby(is_game, occupied, leader_id)]
           frame == UpstreamJoinFrame(srv)
       IN /\ server' = srv
          /\ ReceiveCommand(TRUE, frame.command, frame.flag, frame.data, FALSE, <<>>)

\* another player joins where the client is
Upstream_OtherJoins ==
  \E x \in 0..(ServerLobbySlots - 1) :
    /\ server # NoServer
    /\ x \notin OccupiedSlots(server.lobby)
    /\ server.lobby.is_game => x \in 0..3
    /\ server' = [server EXCEPT !.lobby.clients[x + 1] = x + 1]
    /\ ReceiveCommand(TRUE, IF server.lobby.is_game THEN 101 ELSE 104, 1,
         [entries |-> <<[name |-> "name", client_id |-> x,
                         guild_card |-> UpstreamGuildCard(server, x)]>>,
          leader_id |-> server.lobby.leader_id, client_id |-> server.own, event |-> 0,
          lobby_number |-> 0], FALSE, <<>>)

\* another player leaves; if it was the leader, one of those who stay
\* becomes the leader
Upstream_OtherLeaves ==
  \E x \in 0..(ServerLobbySlots - 1), leader_id \in 0..(ServerLobbySlots - 1) :
    /\ server # NoServer
    /\ x \in OccupiedSlots(server.lobby) \ {server.own}
    /\ leader_id \in OccupiedSlots(server.lobby) \ {x}
    /\ x # server.lobby.leader_id => leader_id = server.lobby.leader_id
    /\ server' = [server EXCEPT !.lobby.clients[x + 1] = NoClient,
                                !.lobby.leader_id = leader_id]
    /\ ReceiveCommand(TRUE, IF server.lobby.is_game THEN 102 ELSE 105, x,
         [size |-> "exact", leader_id |-> leader_id, client_id |-> x], FALSE, <<>>)

InitLeader ==
  /\ \E version \in {"GC", "BB"} :
       session = NewSession(version, 1, 2, TRUE, DefaultClient)
  /\ last = NoCommand
  /\ server = NoServer

NextLeader == Upstream_Join \/ Upstream_OtherJoins \/ Upstream_OtherLeaves

SpecLeader == InitLeader /\ [][NextLeader]_vars

\* the slots of the mirror that hold a player
MirrorOccupied(s) ==
  {x \in 0..(Len(s.lobby_players) - 1) : s.lobby_players[x + 1].guild_card_number # 0}

\* C29: after any sequence of join (64/65/67/68) and leave (66/69) frames
\* the leader id upstream tracks is an occupied slot of its lobby, and the
\* mirrored leader_client_id is an occupied slot of the mirror, whenever a
\* slot is occupied.
C29_LeaderIsOccupiedSlot ==
  /\ (server # NoServer /\ OccupiedSlots(server.lobby) # {}) =>
       server.lobby.leader_id \in OccupiedSlots(server.lobby)
  /\ MirrorOccupied(session) # {} => session.leader_client_id \in MirrorOccupied(session)

(***************************************************************************)
(* Sending to a lobby (SpecFanOut)                                          *)
(***************************************************************************)
\* the loop of send_command_excluding_client from position i of l->clients
RECURSIVE excluding_client_loop(_, _, _, _, _, _, _)
excluding_client_loop(srv, i, c, command, flag, data, size) ==
  IF i > Len(srv.lobby.clients)
    THEN srv
    ELSE LET client == srv.lobby.clients[i]
         IN excluding_client_loop(
              IF client = NoClient \/ client = c
                THEN srv
                ELSE send_command_to_client(srv, client, command, flag, data, size),
              i + 1, c, command, flag, data, size)

\* The client to leave out is sent the command like every other member.
send_command_excluding_nobody(srv, c, command, flag, data, size) ==
  excluding_client_loop(srv, 1, NoClient, command, flag, data, size)

send_command_excluding_client(srv, c, command, flag, data, size) ==
  excluding_client_loop(srv, 1, c, command, flag, data, size)

\* send_command(l, command, flag, data, size)
send_command_lobby(srv, command, flag, data, size) ==
  send_command_excluding_client(srv, NoClient, command, flag, data, size)

send_player_leave_notification(srv, leaving_client_id) ==
  send_command_lobby(srv, IF srv.lobby.is_game THEN 102 ELSE 105, leaving_client_id,
    [leader_id |-> srv.lobby.leader_id, client_id |-> leaving_client_id, unused |-> 0],
    SizeofCmd)

\* 0x081C0372
ResumeGameData == 136053618

send_resume_game(srv, ready_client) ==
  send_command_excluding_client(srv, ready_client, 96, 0, ResumeGameData, 4)

\* a lobby or game some of whose members have lost their connection; the
\* members are of the versions send_join_lobby serves and of DC
InitFanOut ==
  /\ session = NoSession
  /\ last = [id |-> NoClient, op |-> "none", joining_client |-> NoClient]
  /\ \E is_game \in BOOLEAN, occupied \in SUBSET (0..(ServerLobbySlots - 1)),
        version \in {"DC", "PC", "GC", "BB"} :
       /\ occupied # {}
       /\ \E leader_id \in occupied, unconnected \in SUBSET occupied :
            server = [clients |-> [i \in 1..ServerLobbySlots |->
                                     LobbyMember(i - 1, version,
                                                 (i - 1) \notin unconnected, {})],
                      thrown |-> FALSE,
                      lobby |-> NewLobby(is_game, occupied, leader_id)]

\* the members are told that ready_client, a member or not, is done joining
SendResumeGame ==
  \E ready_client \in DOMAIN server.clients :
    /\ server' = send_resume_game(BeginOperation(server), ready_client)
    /\ last' = [id |-> ready_client, op |-> "send_resume_game",
                joining_client |-> NoClient]
    /\ UNCHANGED session

\* the members are told that the player of a slot has left
SendPlayerLeaveNotification ==
  \E leaving_client_id \in 0..(ServerLobbySlots - 1) :
    /\ server' = send_player_leave_notification(BeginOperation(server), leaving_client_id)
    /\ last' = [id |-> leaving_client_id + 1, op |-> "send_player_leave_notification",
                joining_client |-> NoClient]
    /\ UNCHANGED session

NextFanOut == SendResumeGame \/ SendPlayerLeaveNotification

SpecFanOut == InitFanOut /\ [][NextFanOut]_vars

\* the clients that sit in a slot of the lobby
LobbyMembers(l) == {lobby_client(l, x) : x \in OccupiedSlots(l)}

\* the one 60 frame of send_resume_game as client id is sent it
ResumeGameFrame(srv, id) ==
  [command |-> 96, flag |-> 0, data |-> ResumeGameData, crypt |-> srv.clients[id].crypt_out,
   size |-> 4]

\* C30: send_resume_game, through send_command_excluding_client, sends
\* exactly one 60 frame to every member of the lobby other than the excluded
\* client, and nothing to the excluded client or to a client that is in no
\* slot; a member without a connection handle is sent nothing, and no error
\* is raised.
C30_FanOutExcludesClient ==
  last.op = "send_resume_game" =>
    /\ ~server.thrown
    /\ \A id \in DOMAIN server.clients :
         Output(server, id) =
           IF /\ id \in LobbyMembers(server.lobby)
              /\ id # last.id
              /\ server.clients[id].bev
             THEN <<ResumeGameFrame(server, id)>>
             ELSE <<>>

\* the excluded client is a member, another member has no connection
\* handle, a slot is empty and a third member has been sent the frame
C30_Witness ==
  /\ last.op = "send_resume_game"
  /\ last.id \in LobbyMembers(server.lobby)
  /\ \E id \in LobbyMembers(server.lobby) \ {last.id} : ~server.clients[id].bev
  /\ \E x \in 0..(ServerLobbySlots - 1) : x \notin OccupiedSlots(server.lobby)
  /\ \E id \in LobbyMembers(server.lobby) \ {last.id} :
       Output(server, id) = <<ResumeGameFrame(server, id)>>
  /\ Output(server, last.id) = <<>>

(***************************************************************************)
(* Chat lines (SpecChat)                                                    *)
(***************************************************************************)
\* the longest text of a chat command, in code units
MaxChatLen == 4

ChatChars == {CharNul, CharTab, CharDollar, CharC, CharJ}

ChatTexts == UNION {[1..n -> ChatChars] : n \in 0..MaxChatLen}

InitChat ==
  /\ \E version \in {"GC", "PC", "BB"}, enable_chat_filter \in BOOLEAN :
       session = [NewSession(version, 1, 2, TRUE, DefaultClient)
                    EXCEPT !.enable_chat_filter = enable_chat_filter]
  /\ last = NoCommand
  /\ server = NoServer

\* the client sends one chat line; past_end is what lies in memory past the
\* terminator of the decoded text
Client_06 ==
  \E text \in ChatTexts, past_end \in {CharNul, CharDollar} :
    /\ last = NoCommand
    /\ Receive(FALSE, 6, 0,
         [size |-> SizeofChat06 + Len(text) * sizeof_chat_char(session.version),
          text |-> text, past_end |-> past_end, colored |-> FALSE])

NextChat == Client_06

SpecChat == InitChat /\ [][NextChat]_vars

\* the text of the chat command last read, without its padding
ChatText == strip_trailing_zeroes(last.data.text)

\* a text that begins with `$`, or with a tab and one more character
\* followed by `$`
BeginsAsCommand(text) ==
  /\ text # <<>>
  /\ \/ text[1] = CharDollar
     \/ Len(text) >= 3 /\ text[1] = CharTab /\ text[3] = CharDollar

\* the line without its marker
CommandLine(text) == IF text[1] = CharDollar THEN text ELSE substr(text, 2)

\* the chat command last read went upstream as the client sent it, or with
\* color codes added
ChatForwarded ==
  /\ ~session.disconnected
  /\ Len(session.to_server) = 1
  /\ session.to_server[1].command = 6
  /\ session.to_server[1].data \in {last.data, add_color_inplace(last.data)}
  /\ session.chat_commands = <<>>

\* C31: a client 06 whose text begins with `$`, or with a tab-prefixed
\* two-character marker followed by `$`, is handed to the chat-command
\* dispatcher and not forwarded; only for the `$$` escape does text go
\* upstream, with one `$` removed; a chat with an empty text is
\* suppressed, and every other chat line is forwarded.
C31_ChatCommandsAreSuppressed ==
  last.handler = "process_client_06" =>
    IF ChatText = <<>>
      THEN /\ ~session.disconnected
           /\ session.to_server = <<>>
           /\ session.chat_commands = <<>>
    ELSE IF BeginsAsCommand(ChatText)
      THEN LET line == CommandLine(ChatText)
           IN /\ ~session.disconnected
              /\ IF Len(line) >= 2 /\ line[2] = CharDollar
                   THEN /\ session.to_server =
                             <<Frame(6, 0, [name |-> "chat", text |-> substr(line, 1)],
                                     session.server_channel.crypt_out)>>
                        /\ session.chat_commands = <<>>
                   ELSE /\ session.to_server = <<>>
                        /\ session.chat_commands = <<line>>
    ELSE ChatForwarded

(***************************************************************************)
(* Sessions without a license (SpecUnlinked)                                *)
(***************************************************************************)
InitUnlinked ==
  /\ \E version \in GameVersions :
       session = NewSession(version, 0, 0, TRUE, DefaultClient)
  /\ last = NoCommand
  /\ server = NoServer

NextUnlinked == Server_04 \/ Server_64 \/ Server_E4

SpecUnlinked == InitUnlinked /\ [][NextUnlinked]_vars

\* the last command was a join-game 64 or a card-battle lobby E4 handled by
\* its handler of the session's version
JoinOrCardLobbyHandled ==
  /\ last.from_server
  /\ last.handler \in {"process_server_64", "process_server_gc_E4"}

\* C32: in a session without a license every 64 and E4 from upstream is
\* forwarded to the client as it came, guild-card fields included, and
\* without error, also when an entry's guild-card field equals the remote
\* guild-card number recorded from an earlier 04.
C32_UnlinkedJoinForwardedUnchanged ==
  (session.license = 0 /\ JoinOrCardLobbyHandled) =>
    /\ ~session.crashed
    /\ ~session.disconnected
    /\ session.to_client =
         <<Frame(last.command, last.flag, last.data, session.client_channel.crypt_out)>>

(***************************************************************************)
(* The client config command (SpecClientConfig)                             *)
(***************************************************************************)
\* payload sizes of a 04: one byte short of the config data, no config
\* data, some of it, all of it, and one byte more than the command holds
ConfigSizes ==
  {UpdateClientConfigCfgOffset - 1, UpdateClientConfigCfgOffset,
   UpdateClientConfigCfgOffset + 1, UpdateClientConfigSize - 1,
   UpdateClientConfigSize, UpdateClientConfigSize + 1}

\* cfg names the config data of the command, beyond what follows the
\* payload in memory
Server_04_Config ==
  \E size \in ConfigSizes, g \in GuildCards, cfg \in {1, 2} :
    Receive(TRUE, 4, 0,
      [size |-> size, guild_card_number |-> g, cfg |-> cfg, beyond |-> 0])

InitClientConfig ==
  /\ \E version \in {"PC", "GC"}, license \in {0, MaxGuildCard} :
       session = NewSession(version, license, 0, TRUE, DefaultClient)
  /\ last = NoCommand
  /\ server = NoServer

NextClientConfig == Server_04_Config

SpecClientConfig == InitClientConfig /\ [][NextClientConfig]_vars

\* the frames of a sequence that carry the command
FramesOf(frames, command) == {i \in 1..Len(frames) : frames[i].command = command}

\* C33: after an upstream 04 is handled remote_guild_card_number is the
\* number of that frame; in a session with a license the 04 passed to the
\* client carries the license serial; and a checksum 96 is sent upstream
\* exactly when no remote guild-card number was recorded as the 04 arrived.
C33_RemoteNumberRecordedAndHidden ==
  [][(last'.handler = "process_server_dc_pc_v3_04" /\ ~session'.disconnected) =>
       /\ session'.remote_guild_card_number = last'.data.guild_card_number
       /\ Cardinality(FramesOf(session'.to_client, 4)) = 1
       /\ \A i \in FramesOf(session'.to_client, 4) :
            session'.to_client[i].data.guild_card_number =
              IF session.license # 0 THEN session.license
                                     ELSE last'.data.guild_card_number
       /\ Cardinality(FramesOf(session'.to_server, 150)) =
            IF session.remote_guild_card_number = 0 THEN 1 ELSE 0
       /\ session'.to_server = IF session.remote_guild_card_number = 0
                                 THEN <<Frame(150, 0, [name |-> "checksum"],
                                              session.server_channel.crypt_out)>>
                                 ELSE <<>>]_vars

\* a 04 that arrived in a session with a license and a remote number
\* recorded, and that assigned another number
C33_Witness ==
  /\ last.handler = "process_server_dc_pc_v3_04"
  /\ ~session.disconnected
  /\ session.license # 0
  /\ session.remote_guild_card_number = last.data.guild_card_number
  /\ session.remote_guild_card_number \notin {0, session.license}
  /\ session.to_server = <<>>
  /\ \E i \in FramesOf(session.to_client, 4) :
       session.to_client[i].data.guild_card_number = session.license

\* C34: after a 04 with k bytes of client-config data (0 <= k <= 0x20) the
\* first k bytes of remote_client_config_data are those bytes and the other
\* 0x20 - k are the simulated copyright text, the full-size command
\* included; no byte past the received payload is read.
C34_ConfigBytesThenCopyright ==
  (last.handler = "process_server_dc_pc_v3_04" /\ ~session.disconnected) =>
    LET k == last.data.size - UpdateClientConfigCfgOffset
    IN \E had \in {0, 1} :
         \A i \in 1..ClientConfigSize :
           session.remote_client_config_data[i] =
             IF i <= k THEN <<"cfg", last.data.cfg, i>> ELSE <<"text", had, i>>

(***************************************************************************)
(* The lobby mirror under joins and leaves (SpecMirror)                     *)
(***************************************************************************)
\* the largest flag of a join-game command in the model; the command has
\* room for four players
MaxJoinFlag == 5

\* the guild card number upstream has for the player it lists in slot x:
\* the session's own remote number in slot 0
MirrorGuildCard(x) == IF x = 0 THEN 2 ELSE MaxGuildCard + x

\* the slots upstream lists in one 65, 67 or 68
JoinLists == {<<>>, <<0>>, <<3>>, <<4>>, <<12>>, <<0, 3>>, <<4, 11>>, <<3, 12>>}

Server_64_AnyFlag ==
  \E flag \in 0..MaxJoinFlag, occupied \in {{0, 1, 2, 3}, {0, 3}, {1}} :
    Receive(TRUE, 100, flag,
      [size |-> "CmdT", leader_id |-> 0, client_id |-> 0, event |-> 0,
       lobby_data |-> [x \in 1..4 |->
         [guild_card |-> IF x - 1 \in occupied THEN MirrorGuildCard(x - 1) ELSE 0]],
       players_ep3 |-> [x \in 1..4 |-> ""], section_id |-> 0, rare_seed |-> 0])

Server_65_67_68_List ==
  \E command \in {101, 103, 104}, list \in JoinLists :
    Receive(TRUE, command, Len(list),
      [entries |-> [i \in 1..Len(list) |->
                      [name |-> "name", client_id |-> list[i],
                       guild_card |-> MirrorGuildCard(list[i])]],
       leader_id |-> 0, client_id |-> 0, event |-> 0, lobby_number |-> 0])

Server_66_69_Any ==
  \E command \in {102, 105}, client_id \in {0, 3, 4, 11, 12} :
    Receive(TRUE, command, client_id,
      [size |-> "exact", leader_id |-> 0, client_id |-> client_id])

InitMirror ==
  /\ \E version \in {"PC", "GC"} :
       session = NewSession(version, 1, 2, TRUE, DefaultClient)
  /\ last = NoCommand
  /\ server = NoServer

NextMirror == Server_64_AnyFlag \/ Server_65_67_68_List \/ Server_66_69_Any

SpecMirror == InitMirror /\ [][NextMirror]_vars

\* the mirror entry the proxy keeps for a player upstream lists with guild
\* card number g
MirroredPlayer(s, g, name) ==
  [guild_card_number |-> inbound_guild_card(s, g), name |-> name]

\* C35: after a join-game 64 with any flag value the mirror has exactly 4
\* slots, each of them overwritten from the command, so that no member of
\* the lobby before remains, and no slot past the fourth is read or written.
C35_JoinGameOverwritesMirror ==
  (last.handler = "process_server_64" /\ ~session.disconnected) =>
    /\ ~session.crashed
    /\ Len(session.lobby_players) = 4
    /\ \A x \in 1..4 :
         session.lobby_players[x] =
           MirroredPlayer(session, last.data.lobby_data[x].guild_card, "")

\* the slots a 65, 67 or 68 lists that the mirror of size n has
ListedSlots(data, n) ==
  {data.entries[i].client_id : i \in 1..Len(data.entries)} \cap 0..(n - 1)

\* C36: after a 67 the mirror has exactly 12 slots and the occupied ones
\* are the client ids below 12 that the frame lists; an entry of a 65, 67
\* or 68 whose client id is not below the size of the mirror writes nothing
\* and raises no error; a 66 or 69 clears the slot it names and no other,
\* and nothing when the id is out of range.
C36_MirrorFollowsJoinsAndLeaves ==
  [][/\ last'.handler = "process_server_65_67_68" =>
          LET n == IF last'.command = 103 THEN 12 ELSE Len(session.lobby_players)
              listed == ListedSlots(last'.data, n)
          IN /\ ~session'.disconnected
             /\ ~session'.crashed
             /\ Len(session'.lobby_players) = n
             /\ last'.command = 103 => MirrorOccupied(session') = listed
             /\ \A x \in 0..(n - 1) :
                  IF x \in listed
                    THEN session'.lobby_players[x + 1] =
                           MirroredPlayer(session, MirrorGuildCard(x), "name")
                  ELSE IF last'.command = 103
                    THEN session'.lobby_players[x + 1] = EmptyLobbyPlayer
                  ELSE session'.lobby_players[x + 1] = session.lobby_players[x + 1]
     /\ last'.handler = "process_server_66_69" =>
          /\ ~session'.disconnected
          /\ ~session'.crashed
          /\ Len(session'.lobby_players) = Len(session.lobby_players)
          /\ \A x \in 0..(Len(session.lobby_players) - 1) :
               session'.lobby_players[x + 1] =
                 IF x = last'.data.client_id
                   THEN EmptyLobbyPlayer
                   ELSE session.lobby_players[x + 1]]_vars

\* a 69 that cleared slot 0 of a lobby mirror in which a 67 or 68 had put
\* the players of slots 0 and 3
C36_Witness ==
  /\ last.handler = "process_server_66_69"
  /\ last.data.client_id = 0
  /\ Len(session.lobby_players) = 12
  /\ MirrorOccupied(session) = {3}

(***************************************************************************)
(* Saving quest files (SpecSaveFiles)                                       *)
(***************************************************************************)
\* the largest file upstream announces, in chunks
MaxFileChunks == 2

HalfChunk == WriteFileDataSize \div 2

\* sizes of files: none, half a chunk, whole chunks, and the largest with
\* one byte more
SavedFileSizes ==
  {0, HalfChunk, MaxFileChunks * WriteFileDataSize + 1}
    \cup {n * WriteFileDataSize : n \in 1..MaxFileChunks}

\* data_size of a write-file command: up to the 0x400 the command holds, and
\* a value it cannot hold
ChunkDataSizes == {0, HalfChunk, WriteFileDataSize, WriteFileDataSize + 1}

SavedFileNames == {"quest.bin", "quest.dat"}

Server_44_A6 ==
  \E command \in {68, 166}, filename \in SavedFileNames, file_size \in SavedFileSizes :
    Receive(TRUE, command, 0,
      [size |-> "exact", filename |-> filename, file_size |-> file_size])

Server_13_A7 ==
  \E command \in {19, 167}, filename \in SavedFileNames, data_size \in ChunkDataSizes :
    Receive(TRUE, command, 0,
      [size |-> "exact", filename |-> filename, data_size |-> data_size])

InitSaveFiles ==
  /\ \E save_files \in BOOLEAN :
       session = [NewSession("GC", 1, 2, TRUE, DefaultClient)
                    EXCEPT !.save_files = save_files]
  /\ last = NoCommand
  /\ server = NoServer

NextSaveFiles == Server_44_A6 \/ Server_13_A7

SpecSaveFiles == InitSaveFiles /\ [][NextSaveFiles]_vars

\* the session without what the command at hand made it send and write
SessionAtRest(s) ==
  [s EXCEPT !.to_client = <<>>, !.to_server = <<>>, !.chat_commands = <<>>,
            !.file_writes = <<>>]

\* remaining_bytes of a file after a chunk of data_size bytes, as the
\* statement has it: at most 0x400 bytes less, and not below 0
RemainingAfter(remaining_bytes, data_size) ==
  LET written == Min(data_size, WriteFileDataSize)
  IN IF written > remaining_bytes THEN 0 ELSE remaining_bytes - written

MaxStatsChangeAmount == 2550

\* the largest amount one step of the chain carries
MaxStatsChangeStep == 255

\* how far past MaxStatsChangeAmount the amounts asked for go
MaxExcessAmount == 2

\* the while loop of send_player_stats_change: one 6x9A subcommand and its
\* argument word per step
RECURSIVE stats_change_loop(_, _, _, _)
stats_change_loop(subs, lobby_client_id, stat, amount) ==
  IF amount > 0
    THEN LET byte3 == IF amount > MaxStatsChangeStep THEN MaxStatsChangeStep ELSE amount
         IN stats_change_loop(subs \o << <<154, 2, lobby_client_id, 0>>,
                                         <<0, 0, stat, byte3>> >>,
                              lobby_client_id, stat, amount - byte3)
    ELSE subs

\* Any amount is turned into a chain.
send_player_stats_change_unchecked(srv, c, stat, amount) ==
  LET subs == stats_change_loop(<<>>, srv.clients[c].lobby_client_id, stat, amount)
  IN send_command_lobby(srv, 96, 0, subs, 4 * Len(subs))

send_player_stats_change(srv, c, stat, amount) ==
  IF amount > MaxStatsChangeAmount
    THEN [srv EXCEPT !.thrown = TRUE]
    ELSE LET subs == stats_change_loop(<<>>, srv.clients[c].lobby_client_id, stat, amount)
         IN send_command_lobby(srv, 96, 0, subs, 4 * Len(subs))

StatsChangeAmounts == 0..(MaxStatsChangeAmount + MaxExcessAmount)

\* a game of two connected members and a lobby of one
InitStatsChange ==
  /\ session = NoSession
  /\ last = [id |-> NoClient, amount |-> 0, stat |-> "none", op |-> "none"]
  /\ \E occupied \in {{0, 2}, {1}} :
       server = [clients |-> [i \in 1..ServerLobbySlots |->
                                LobbyMember(i - 1, "GC", TRUE, {})],
                 thrown |-> FALSE,
                 lobby |-> NewLobby(occupied = {0, 2}, occupied, 0)]

\* the stats of member c are changed once
SendPlayerStatsChange ==
  \E c \in LobbyMembers(server.lobby), stat \in {"ADD_HP", "ADD_TP"},
     amount \in StatsChangeAmounts :
    /\ last.op = "none"
    /\ server' = send_player_stats_change(BeginOperation(server), c, stat, amount)
    /\ last' = [id |-> c, amount |-> amount, stat |-> stat,
                op |-> "send_player_stats_change"]
    /\ UNCHANGED session

NextStatsChange == SendPlayerStatsChange

SpecStatsChange == InitStatsChange /\ [][NextStatsChange]_vars

\* ceil(amount / 255)
StatsChangeSteps(amount) == (amount + MaxStatsChangeStep - 1) \div MaxStatsChangeStep

\* subs is a chain of n steps for the player of slot lobby_client_id whose
\* amounts are each 1..255 and add up to amount
IsStatsChangeChain(subs, n, lobby_client_id, stat, amount) ==
  /\ Len(subs) = 2 * n
  /\ \A i \in 1..n :
       /\ subs[2 * i - 1] = <<154, 2, lobby_client_id, 0>>
       /\ Len(subs[2 * i]) = 4
       /\ subs[2 * i][1] = 0 /\ subs[2 * i][2] = 0 /\ subs[2 * i][3] = stat
       /\ subs[2 * i][4] \in 1..MaxStatsChangeStep
  /\ SumOver([i \in 1..n |-> subs[2 * i][4]], 1, n) = amount

\* C38: send_player_stats_change raises an error and sends nothing when the
\* amount is above 2550; for every amount in 0..2550 it sends the members of
\* the lobby one 60 frame whose chain has ceil(amount / 255) steps, each of
\* an amount in 1..255, that add up to exactly the amount.
C38_StatsChangeChain ==
  last.op = "send_player_stats_change" =>
    IF last.amount > MaxStatsChangeAmount
      THEN /\ server.thrown
           /\ \A id \in DOMAIN server.clients : Output(server, id) = <<>>
      ELSE /\ ~server.thrown
           /\ \A id \in LobbyMembers(server.lobby) :
                /\ Len(Output(server, id)) = 1
                /\ Output(server, id)[1].command = 96
                /\ IsStatsChangeChain(Output(server, id)[1].data,
                                      StatsChangeSteps(last.amount),
                                      server.clients[last.id].lobby_client_id,
                                      last.stat, last.amount)

\* an amount that is no multiple of 255 went out to a member as a chain of
\* more than one step, the last one short
C38_Witness ==
  /\ last.op = "send_player_stats_change"
  /\ last.amount = MaxStatsChangeStep + 1
  /\ \E id \in LobbyMembers(server.lobby) \ {last.id} :
       /\ Len(Output(server, id)) = 1
       /\ Len(Output(server, id)[1].data) = 4
       /\ Output(server, id)[1].data[4][4] = 1

(***************************************************************************)
(* What a failed handler leaves behind (SpecFailure)                        *)
(***************************************************************************)
\* the largest flag of a join-lobby or add-player command upstream sends
MaxListFlag == 2

\* a join-lobby or add-player command whose flag may differ from the number
\* of entries its payload holds
Server_65_67_68_AnyLength ==
  \E command \in {101, 103, 104}, flag \in 0..MaxListFlag, list \in JoinLists :
    Receive(TRUE, command, flag,
      [entries |-> [i \in 1..Len(list) |->
                      [name |-> "name", client_id |-> list[i],
                       guild_card |-> MirrorGuildCard(list[i])]],
       leader_id |-> 0, client_id |-> 0, event |-> 0, lobby_number |-> 0])

\* a licensed session on a client with or without the flag that a lobby
\* join turns into NO_MESSAGE_BOX_CLOSE_CONFIRMATION
InitFailure ==
  /\ \E version \in {"PC", "GC", "XB"},
        flags \in SUBSET {"NO_MESSAGE_BOX_CLOSE_CONFIRMATION_AFTER_LOBBY_JOIN"} :
       session = NewSession(version, 1, 2, TRUE, [DefaultClient EXCEPT !.flags = flags])
  /\ last = NoCommand
  /\ server = NoServer

NextFailure == Server_65_67_68_AnyLength \/ Server_02_17

SpecFailure == InitFailure /\ [][NextFailure]_vars

\* the ciphers of both channels
InstalledCiphers(s) ==
  <<s.client_channel.crypt_in, s.client_channel.crypt_out,
    s.server_channel.crypt_in, s.server_channel.crypt_out>>

\* C39: when the handler of a frame fails, the session is, but for the
\* disconnect, as it was before the frame: the lobby mirror, the saved
\* client-config flags and the installed ciphers are unchanged, and no
\* frame has been sent to either side.
C39_FailedHandlerLeavesSessionAsItWas ==
  [][last'.result = "THROW" =>
       /\ session'.disconnected
       /\ session'.lobby_players = session.lobby_players
       /\ session'.newserv_client_config_flags = session.newserv_client_config_flags
       /\ InstalledCiphers(session') = InstalledCiphers(session)
       /\ session'.to_client = <<>>
       /\ session'.to_server = <<>>]_vars

(***************************************************************************)
(* The ciphers of a channel come in pairs (SpecCiphers)                     *)
(***************************************************************************)
\* a session as it is linked, new or resumed, with or without a license;
\* a resumed BB session has or lacks the login command captured before
InitCiphers ==
  /\ \E version \in Versions, license \in {0, 1}, resumed \in BOOLEAN,
        login_size \in {0, 152}, virtual \in BOOLEAN :
       /\ login_size # 0 => version = "BB" /\ resumed
       /\ session = NewSession(version, license, 2, resumed,
                      [DefaultClient EXCEPT !.login_size = login_size,
                                            !.is_virtual_connection = virtual])
  /\ last = NoCommand
  /\ server = NoServer

\* a reconnect of full size; the patch server redirects with 14, every
\* other server with 19
Server_19_14_Full ==
  \E data \in ReconnectCommands :
    Receive(TRUE, IF session.version = "PATCH" THEN 20 ELSE 25, 0, data)

NextCiphers == Server_02_17 \/ Server_bb_03 \/ Server_19_14_Full

SpecCiphers == InitCiphers /\ [][NextCiphers]_vars

\* both directions of channel ch are encrypted, or neither is
CiphersPaired(ch) == (ch.crypt_in = NoCrypt) <=> (ch.crypt_out = NoCrypt)

\* C40: between any two proxied commands each channel of the session has
\* its in and out ciphers both installed or both absent, whatever server-init
\* (02/17/03) and reconnect (14/19) frames have been handled.
C40_CiphersComeInPairs ==
  /\ CiphersPaired(session.client_channel)
  /\ CiphersPaired(session.server_channel)

\* upstream's ciphers were installed by a server-init and have been taken
\* out again by the patch server's redirect, with the client's in place
C40_Witness ==
  /\ last.from_server
  /\ last.command = 20
  /\ last.result = "SUPPRESS"
  /\ session.server_channel.crypt_in = NoCrypt
  /\ session.server_channel.crypt_out = NoCrypt
  /\ session.client_channel.crypt_in # NoCrypt
  /\ session.client_channel.crypt_out # NoCrypt

====
